---------------------------- MODULE Spec2Model ----------------------------
(***************************************************************************)
(* A model of the employee-record ETL pipeline: the field validators and   *)
(* clean_data of src/cleaner.py, analyze_data of src/analyzer.py, the      *)
(* Pipeline Summary fallback of src/excel_writer.py and the asynchronous   *)
(* pipeline run_pipeline_async of src/main.py.                             *)
(*                                                                         *)
(* Conventions.  A Python str is a sequence of one-character strings.      *)
(* None / NaN in a cell of string type is the value None below, which is   *)
(* no str (its only element has four characters).  A Python dict is a      *)
(* function whose DOMAIN is its set of keys, so that a missing key is a    *)
(* key outside DOMAIN, and dict.get is the operator Get.                   *)
(***************************************************************************)
EXTENDS Integers, Sequences, FiniteSets, TLC

(***************************************************************************)
(* Python str primitives.                                                  *)
(***************************************************************************)
None == <<"None">>

IsStr(v) == v # None

LowerSeq == <<"a","b","c","d","e","f","g","h","i","j","k","l","m",
              "n","o","p","q","r","s","t","u","v","w","x","y","z">>

UpperSeq == <<"A","B","C","D","E","F","G","H","I","J","K","L","M",
              "N","O","P","Q","R","S","T","U","V","W","X","Y","Z">>

DigitSeq == <<"0","1","2","3","4","5","6","7","8","9">>

Range(s) == {s[i] : i \in DOMAIN s}

\* the function f with domain 1..n as a sequence value (the same function,
\* with its elements computed once)
AsSeq(f) == f \o <<>>

\* the element of a set of one element; the set forms {e : x \in {v}} below
\* evaluate v once, before e
Only(S) == CHOOSE x \in S : TRUE

LowerChars == Range(LowerSeq)

UpperChars == Range(UpperSeq)

DigitChars == Range(DigitSeq)

Whitespace == {" ", "\t", "\n", "\r"}

IndexIn(c, s) == CHOOSE i \in DOMAIN s : s[i] = c

\* the function that maps keys[i] to vals[i]
RECURSIVE Zip(_, _)
Zip(keys, vals) ==
    IF Len(keys) = 1 THEN Head(keys) :> Head(vals)
    ELSE (Head(keys) :> Head(vals)) @@ Zip(Tail(keys), Tail(vals))

LowerOf == Zip(UpperSeq, LowerSeq)

LowerChar(c) == IF c \in UpperChars THEN LowerOf[c] ELSE c

DigitValOf == Zip(DigitSeq, <<0, 1, 2, 3, 4, 5, 6, 7, 8, 9>>)

DigitVal(c) == DigitValOf[c]

\* str.lower()
Lower(s) == AsSeq([i \in DOMAIN s |-> LowerChar(s[i])])

\* str.lstrip(), str.rstrip() and str.strip(): drop leading and trailing whitespace
RECURSIVE LStrip(_)
LStrip(s) == IF s # <<>> /\ Head(s) \in Whitespace THEN LStrip(Tail(s)) ELSE s

RECURSIVE RStrip(_)
RStrip(s) ==
    IF s # <<>> /\ s[Len(s)] \in Whitespace THEN RStrip(SubSeq(s, 1, Len(s) - 1)) ELSE s

Strip(s) == RStrip(LStrip(s))

\* str.replace(old, new) for a one-character old and new
ReplaceChar(s, old, new) == AsSeq([i \in DOMAIN s |-> IF s[i] = old THEN new ELSE s[i]])

\* re.sub of the complement of a character class by "": the characters of
\* s that are in keepSet, in order
RECURSIVE Filter(_, _)
Filter(s, keepSet) ==
    IF s = <<>> THEN <<>>
    ELSE (IF Head(s) \in keepSet THEN <<Head(s)>> ELSE <<>>) \o Filter(Tail(s), keepSet)

\* str.replace(c, "") for the one-character strings c in dropSet
RECURSIVE Remove(_, _)
Remove(s, dropSet) ==
    IF s = <<>> THEN <<>>
    ELSE (IF Head(s) \in dropSet THEN <<>> ELSE <<Head(s)>>) \o Remove(Tail(s), dropSet)

AllIn(s, set) == \A i \in DOMAIN s : s[i] \in set

(***************************************************************************)
(* Field validators (src/cleaner.py).                                      *)
(***************************************************************************)
EmailLocalChars == LowerChars \cup UpperChars \cup DigitChars \cup {".", "_", "%", "+", "-"}

EmailDomainChars == LowerChars \cup UpperChars \cup DigitChars \cup {".", "-"}

EmailTldChars == LowerChars \cup UpperChars

\* re.match(r"^[A-Za-z0-9._%+-]+@[A-Za-z0-9.-]+\.[A-Za-z]{2,}$", s), for s
\* without a trailing newline (the callers strip s first)
EmailPatternMatches(s) ==
    \E at \in DOMAIN s :
        /\ s[at] = "@"
        /\ at > 1
        /\ AllIn(SubSeq(s, 1, at - 1), EmailLocalChars)
        /\ \E dot \in (at + 2)..Len(s) :
              /\ s[dot] = "."
              /\ AllIn(SubSeq(s, at + 1, dot - 1), EmailDomainChars)
              /\ Len(s) - dot >= 2
              /\ AllIn(SubSeq(s, dot + 1, Len(s)), EmailTldChars)

\* a validator that matches the pattern on the text as given
validate_email_as_given(email) ==
    IF ~IsStr(email) THEN FALSE
    ELSE EmailPatternMatches(email)

validate_email(email) ==
    IF ~IsStr(email) THEN FALSE
    ELSE EmailPatternMatches(Lower(Strip(email)))

fix_email(email) ==
    IF ~IsStr(email) THEN None
    ELSE LET e == Lower(Strip(email))
         IN  IF validate_email(e) THEN e ELSE None

\* re.sub(r"[^\d+]", "", phone.strip())
PhoneKeepChars == DigitChars \cup {"+"}

PhoneStripped(phone) == Filter(Strip(phone), PhoneKeepChars)

\* phone[1:] if phone.startswith("+") else phone
PhoneDigits(p) == IF p # <<>> /\ Head(p) = "+" THEN Tail(p) ELSE p

\* str.isdigit(): non-empty and every character a digit
IsDigitStr(s) == s # <<>> /\ AllIn(s, DigitChars)

validate_phone(phone) ==
    IF ~IsStr(phone) THEN FALSE
    ELSE LET digits == PhoneDigits(PhoneStripped(phone))
         IN  IsDigitStr(digits) /\ 7 <= Len(digits) /\ Len(digits) <= 15

normalize_phone(phone) ==
    IF ~IsStr(phone) THEN None
    ELSE LET p == PhoneStripped(phone)
             digits == PhoneDigits(p)
         IN  IF IsDigitStr(digits) /\ 7 <= Len(digits) /\ Len(digits) <= 15
             THEN p ELSE None

(***************************************************************************)
(* clean_numeric.  A float is <<kind, neg, mant, scale>>: kind 0 is the    *)
(* finite value (-1)^neg * mant / 10^scale, kind 1 is +-inf, kind 2 is     *)
(* nan.  NoFloat is float() raising ValueError, and also the None that     *)
(* clean_numeric returns.  A numeric (non-str) cell is written as its      *)
(* plain decimal text, on which float(value) gives the same number and     *)
(* the two str.replace calls change nothing.                               *)
(*                                                                         *)
(* ParseFloat is float(s) for every s without an exponent part and         *)
(* without digit-group underscores.                                        *)
(***************************************************************************)
NoFloat == <<>>

RECURSIVE DigitsValue(_)
DigitsValue(s) ==
    IF s = <<>> THEN 0 ELSE 10 * DigitsValue(SubSeq(s, 1, Len(s) - 1)) + DigitVal(s[Len(s)])

ParseUnsigned(neg, body) ==
    LET low == Lower(body)
        dots == {i \in DOMAIN body : body[i] = "."}
    IN  IF low = <<"n","a","n">> THEN <<2, neg, 0, 0>>
        ELSE IF low = <<"i","n","f">> \/ low = <<"i","n","f","i","n","i","t","y">>
        THEN <<1, neg, 0, 0>>
        ELSE IF Cardinality(dots) > 1 THEN NoFloat
        ELSE LET dot  == IF dots = {} THEN Len(body) + 1 ELSE CHOOSE i \in dots : TRUE
                 ip   == SubSeq(body, 1, dot - 1)
                 fp   == SubSeq(body, dot + 1, Len(body))
             IN  IF /\ AllIn(ip, DigitChars)
                    /\ AllIn(fp, DigitChars)
                    /\ Len(ip) + Len(fp) >= 1
                 THEN <<0, neg, DigitsValue(ip \o fp), Len(fp)>>
                 ELSE NoFloat

ParseFloat(s) ==
    LET t == Strip(s)
    IN  IF t = <<>> THEN NoFloat
        ELSE IF Head(t) = "-" THEN ParseUnsigned(1, Tail(t))
        ELSE IF Head(t) = "+" THEN ParseUnsigned(0, Tail(t))
        ELSE ParseUnsigned(0, t)

\* num >= 0 (nan compares False; -0.0 >= 0 is True)
FloatNonNegative(f) ==
    CASE f[1] = 2 -> FALSE
      [] f[1] = 1 -> f[2] = 0
      [] OTHER    -> f[2] = 0 \/ f[3] = 0

clean_numeric(value) ==
    IF ~IsStr(value) THEN NoFloat
    ELSE LET v   == Strip(Remove(Remove(value, {","}), {"$"}))
             num == ParseFloat(v)
         IN  IF num = NoFloat THEN NoFloat
             ELSE IF FloatNonNegative(num) THEN num ELSE NoFloat

(***************************************************************************)
(* clean_date.  pandas.to_datetime(value, errors="coerce") on the inputs   *)
(* of this model: None and text that is no date give NaT, and text of the  *)
(* form YYYY-MM-DD gives <<year, month, day>> when that is a calendar day  *)
(* and NaT otherwise.                                                      *)
(***************************************************************************)
NaT == <<>>

IsLeap(y) == (y % 4 = 0 /\ y % 100 # 0) \/ y % 400 = 0

DaysIn(y, m) ==
    IF m = 2 THEN (IF IsLeap(y) THEN 29 ELSE 28)
    ELSE IF m \in {4, 6, 9, 11} THEN 30 ELSE 31

to_datetime(value) ==
    IF ~IsStr(value) THEN NaT
    ELSE LET s == Strip(value)
         IN  IF /\ Len(s) = 10
                /\ s[5] = "-" /\ s[8] = "-"
                /\ AllIn(SubSeq(s, 1, 4), DigitChars)
                /\ AllIn(SubSeq(s, 6, 7), DigitChars)
                /\ AllIn(SubSeq(s, 9, 10), DigitChars)
             THEN LET y == DigitsValue(SubSeq(s, 1, 4))
                      m == DigitsValue(SubSeq(s, 6, 7))
                      d == DigitsValue(SubSeq(s, 9, 10))
                  IN  IF m \in 1..12 /\ d >= 1 /\ d <= DaysIn(y, m)
                      THEN <<y, m, d>> ELSE NaT
             ELSE NaT

clean_date(value) ==
    LET parsed == to_datetime(value)
    IN  IF parsed # NaT THEN parsed ELSE NaT

clean_text(value) ==
    IF ~IsStr(value) THEN None
    ELSE LET v == Strip(value)
         IN  IF v # <<>> THEN v ELSE None

\* column names
col_id == <<"i","d">>
col_name == <<"n","a","m","e">>
col_email == <<"e","m","a","i","l">>
col_phone == <<"p","h","o","n","e">>
col_salary == <<"s","a","l","a","r","y">>
col_date_joined == <<"d","a","t","e","_","j","o","i","n","e","d">>
col_department == <<"d","e","p","a","r","t","m","e","n","t">>
col_notes == <<"n","o","t","e","s">>
col_position == <<"p","o","s","i","t","i","o","n">>
col_location == <<"l","o","c","a","t","i","o","n">>
col_status == <<"s","t","a","t","u","s">>
col_manager == <<"m","a","n","a","g","e","r">>
col_dob == <<"d","o","b">>
col_gender == <<"g","e","n","d","e","r">>
col_contract_type == <<"c","o","n","t","r","a","c","t","_","t","y","p","e">>
col_last_updated == <<"l","a","s","t","_","u","p","d","a","t","e","d">>
col_badge == <<"b","a","d","g","e">>

(***************************************************************************)
(* The cells of the model's input tables, and the five validators          *)
(* tabulated over them: Series.apply(validator) on a cell v is             *)
(* Apply(table, validator, v), which is validator(v), looked up when v is  *)
(* one of the tabulated cells.                                             *)
(***************************************************************************)
EmailCells == {<<"a","@","b",".","c","o">>, <<" ","A","@","b",".","C","O">>, <<"b","a","d">>}

PhoneCells == {<<"+","1"," ","5","5","5","-","0","1","0","0">>, <<"5","5","5","-","0","1">>}

SalaryCells == {<<"$","1",",","2","0","0">>, <<"-","5">>}

DateCells == {<<"2","0","2","1","-","0","3","-","1","5">>, <<"2","0","2","1","-","0","2","-","3","0">>}

\* the cells a column of an input table may hold, by its normalized name
CellDomain(c) ==
    CASE c = col_id          -> {<<"7">>}
      [] c = col_name        -> {<<"A","n","n">>}
      [] c = col_email       -> EmailCells
      [] c = col_phone       -> PhoneCells
      [] c = col_salary      -> SalaryCells
      [] c = col_date_joined -> DateCells
      [] c = col_notes       -> {<<" ","o","k"," ">>}
      [] OTHER               -> {<<"x">>}

ModelCells ==
    UNION {CellDomain(c) : c \in {col_id, col_name, col_email, col_phone, col_salary,
                                  col_date_joined, col_notes, col_badge}} \cup {None}

\* the function on S that maps x to Op(x)
RECURSIVE Tabulate(_, _)
Tabulate(Op(_), S) ==
    IF S = {} THEN <<>>
    ELSE LET x == CHOOSE y \in S : TRUE
         IN  IF S = {x} THEN x :> Op(x) ELSE (x :> Op(x)) @@ Tabulate(Op, S \ {x})

fix_email_table == Tabulate(fix_email, ModelCells)

normalize_phone_table == Tabulate(normalize_phone, ModelCells)

clean_numeric_table == Tabulate(clean_numeric, ModelCells)

clean_date_table == Tabulate(clean_date, ModelCells)

clean_text_table == Tabulate(clean_text, ModelCells)

validate_email_table == Tabulate(validate_email, ModelCells)

validate_phone_table == Tabulate(validate_phone, ModelCells)

Apply(table, Op(_), v) == IF v \in DOMAIN table THEN table[v] ELSE Op(v)

(***************************************************************************)
(* Tables.  A DataFrame is [obj, columns, index, data, numeric]: the       *)
(* identity of the object (the place of the code that created it; no      *)
(* place creates two in one run), the column                               *)
(* labels, the row labels, per row the cells in column order, and the set  *)
(* of columns of a numeric dtype (int64 or float64).  A cell of a numeric  *)
(* column is a float <<kind, neg, mant, scale>> as in clean_numeric above, *)
(* NaN being kind 2; a cell of any other column is a str, None, or what a  *)
(* validator returned.  In the tables of this model only id, salary and    *)
(* columns outside the expected ones are ever numeric.                     *)
(***************************************************************************)
\* The characters of this model in code-point order, for sorted()
AsciiSeq == <<"\t", "\n", "\r", " ", "$", "%", "+", ",", "-", ".">> \o DigitSeq
            \o <<"@">> \o UpperSeq \o <<"_">> \o LowerSeq

OrdOf == Zip(AsciiSeq, AsSeq([i \in DOMAIN AsciiSeq |-> i]))

Ord(c) == OrdOf[c]

\* a < b for two str
RECURSIVE StrLess(_, _)
StrLess(a, b) ==
    IF b = <<>> THEN FALSE
    ELSE IF a = <<>> THEN TRUE
    ELSE IF Head(a) # Head(b) THEN Ord(Head(a)) < Ord(Head(b))
    ELSE StrLess(Tail(a), Tail(b))

\* sorted(S) for a set S of str
RECURSIVE Sorted(_)
Sorted(S) ==
    IF S = {} THEN <<>>
    ELSE LET least == CHOOSE x \in S : \A y \in S \ {x} : StrLess(x, y)
         IN  <<least>> \o Sorted(S \ {least})

\* the elements of seq at the positions in pos, in order
RECURSIVE Pick(_, _)
Pick(seq, pos) ==
    IF pos = {} THEN <<>>
    ELSE LET last == CHOOSE i \in pos : \A j \in pos : j <= i
         IN  Pick(seq, pos \ {last}) \o <<seq[last]>>

REQUIRED_COLUMNS == <<col_id, col_name, col_email, col_phone, col_salary, col_date_joined>>

OPTIONAL_COLUMNS == <<col_department, col_notes, col_position, col_location, col_status,
                      col_manager, col_dob, col_gender, col_contract_type, col_last_updated>>

CLEANING_VERSION == "4.6"

\* a test that holds for a table without columns only
EmptyOfColumns(df) == Len(df.columns) = 0

\* df.empty: some axis has length 0
Empty(df) == Len(df.index) = 0 \/ Len(df.columns) = 0

\* df.columns.str.strip().str.lower().str.replace(" ", "_", regex=False)
NormalizeColumns(columns) ==
    AsSeq([i \in DOMAIN columns |-> ReplaceChar(Lower(Strip(columns[i])), " ", "_")])

HasColumn(df, c) == c \in Range(df.columns)

ColumnPos(df, c) == IndexIn(c, df.columns)

\* df[c] at row position i
Cell(df, i, c) == df.data[i][ColumnPos(df, c)]

\* a drop_duplicates that keeps the last of equal rows (keep="last")
LastOccurrences(data) ==
    {i \in DOMAIN data : \A j \in (i + 1)..Len(data) : data[j] # data[i]}

\* df.drop_duplicates(): the positions of the rows that equal no earlier row
FirstOccurrences(data) ==
    {i \in DOMAIN data : \A j \in 1..(i - 1) : data[j] # data[i]}

\* df[c].apply(validator).isna(), as the set of row positions (among rows)
\* it marks, for each of the four validated columns
EmailInvalid(df, rows) == {i \in rows : Apply(fix_email_table, fix_email, Cell(df, i, col_email)) = None}

\* a phone check that skips the rows whose email already failed
PhoneInvalidShortCircuit(df, rows) ==
    {i \in rows \ EmailInvalid(df, rows) : Apply(normalize_phone_table, normalize_phone, Cell(df, i, col_phone)) = None}

PhoneInvalid(df, rows) == {i \in rows : Apply(normalize_phone_table, normalize_phone, Cell(df, i, col_phone)) = None}

\* clean_numeric on a cell of a numeric column: str(value) is the decimal
\* text of the same number ("nan" for NaN), which float() reads back
clean_numeric_number(value) == IF FloatNonNegative(value) THEN value ELSE NoFloat

\* df["salary"].apply(clean_numeric) at row i
CleanSalary(df, i) ==
    IF col_salary \in df.numeric THEN clean_numeric_number(Cell(df, i, col_salary))
    ELSE Apply(clean_numeric_table, clean_numeric, Cell(df, i, col_salary))

SalaryInvalid(df, rows) == {i \in rows : CleanSalary(df, i) = NoFloat}

DateInvalid(df, rows) == {i \in rows : Apply(clean_date_table, clean_date, Cell(df, i, col_date_joined)) = NaT}

\* an invalid_mask that leaves out the last  invalid_mask |= date_invalid
InvalidMaskWithoutDates(email_invalid, phone_invalid, salary_invalid, date_invalid) ==
    email_invalid \cup phone_invalid \cup salary_invalid

\* invalid_mask after the four  invalid_mask |= ..._invalid
InvalidMask(email_invalid, phone_invalid, salary_invalid, date_invalid) ==
    email_invalid \cup phone_invalid \cup salary_invalid \cup date_invalid

\* the cleaned cell of row i in the column at position k
CleanCell(df, i, k) ==
    LET c == df.columns[k]
        v == df.data[i][k]
    IN  IF c = col_email THEN Apply(fix_email_table, fix_email, v)
        ELSE IF c = col_phone THEN Apply(normalize_phone_table, normalize_phone, v)
        ELSE IF c = col_salary THEN CleanSalary(df, i)
        ELSE IF c = col_date_joined THEN Apply(clean_date_table, clean_date, v)
        ELSE IF c \in Range(OPTIONAL_COLUMNS) THEN Apply(clean_text_table, clean_text, v)
        ELSE v

EmptyReport ==
    [original_rows |-> 0, final_rows |-> 0, duplicates_dropped |-> 0,
     invalid_emails_dropped |-> 0, invalid_phones_dropped |-> 0,
     invalid_numbers_dropped |-> 0, invalid_dates_dropped |-> 0,
     missing_required_columns |-> <<>>, extra_columns |-> <<>>,
     cleaning_version |-> CLEANING_VERSION]

Returned(value) == [raised |-> FALSE, value |-> <<value>>, exc |-> <<>>]

Raised(type, kind, detail) ==
    [raised |-> TRUE, value |-> <<>>, exc |-> <<[type |-> type, kind |-> kind, detail |-> detail]>>]

ValidatedColumns == <<col_email, col_phone, col_salary, col_date_joined>>

(***************************************************************************)
(* clean_data(df, drop_duplicates=..., required_columns=...).  The result  *)
(* is Returned(<<clean_df, report>>) or Raised(...): when it raises, the   *)
(* local dict report is not part of what the caller gets.                  *)
(* required_columns is a sequence of names, <<>> standing for None and     *)
(* for the empty list alike (required_columns or REQUIRED_COLUMNS).        *)
(***************************************************************************)
\* df.copy(), line 118: a new object with the same content
CopyOf(table) == [table EXCEPT !.obj = "copy"]

\* lines 119-123: the assignment to df.columns, which changes the object
\* that df is bound to
Renamed(table) == [table EXCEPT !.columns = NormalizeColumns(table.columns)]

\* the caller's table once clean_data has run: what the assignments of
\* lines 119-123 made of it if they were made to the caller's object, and
\* the table as it was otherwise
CallerTableAfter(df_in) ==
    IF Empty(df_in) THEN df_in
    ELSE IF Renamed(CopyOf(df_in)).obj = df_in.obj THEN Renamed(CopyOf(df_in))
    ELSE df_in

clean_data(df_in, drop_duplicates, required_columns) ==
    IF Empty(df_in) THEN Returned(<<df_in, EmptyReport>>)
    ELSE
    LET df0      == Renamed(CopyOf(df_in))
        required == IF required_columns # <<>> THEN required_columns ELSE REQUIRED_COLUMNS
        missing  == Sorted(Range(required) \ Range(df0.columns))
        extra    == Sorted((Range(df0.columns) \ Range(required)) \ Range(OPTIONAL_COLUMNS))
        before   == Len(df0.index)
        deduped  == IF drop_duplicates THEN FirstOccurrences(df0.data) ELSE DOMAIN df0.data
        absent   == {k \in DOMAIN ValidatedColumns : ~HasColumn(df0, ValidatedColumns[k])}
    IN  IF missing # <<>>
        THEN Raised("CleaningError", "missing_required_columns", missing)
        ELSE IF absent # {}
        \* df["email"] etc. raise KeyError at the first absent column, which
        \* the except clause turns into CleaningError(str(exc))
        THEN Raised("CleaningError", "KeyError",
                    <<ValidatedColumns[CHOOSE k \in absent : \A j \in absent : k <= j]>>)
        ELSE
        LET email_invalid  == EmailInvalid(df0, deduped)
            phone_invalid  == PhoneInvalid(df0, deduped)
            salary_invalid == SalaryInvalid(df0, deduped)
            date_invalid   == DateInvalid(df0, deduped)
            invalid_mask   == InvalidMask(email_invalid, phone_invalid, salary_invalid, date_invalid)
            kept           == deduped \ invalid_mask
            \* df.loc[~invalid_mask], line 162, is a new object
            clean == [obj     |-> "loc",
                      columns |-> df0.columns,
                      index   |-> Pick(df0.index, kept),
                      data    |-> Pick([i \in DOMAIN df0.data |->
                                          AsSeq([k \in DOMAIN df0.columns |-> CleanCell(df0, i, k)])],
                                       kept),
                      \* apply() gives salary dtype float64 when some value is a
                      \* float, and the str columns dtype object
                      numeric |-> (df0.numeric \ (Range(ValidatedColumns) \cup Range(OPTIONAL_COLUMNS)))
                                  \cup (IF deduped \ salary_invalid # {} THEN {col_salary} ELSE {})]
            report == [original_rows |-> Len(df_in.index),
                       duplicates_dropped |-> IF drop_duplicates
                                              THEN before - Cardinality(deduped) ELSE 0,
                       invalid_emails_dropped |-> Cardinality(email_invalid),
                       invalid_phones_dropped |-> Cardinality(phone_invalid),
                       invalid_numbers_dropped |-> Cardinality(salary_invalid),
                       invalid_dates_dropped |-> Cardinality(date_invalid),
                       missing_required_columns |-> <<>>,
                       extra_columns |-> extra,
                       cleaning_version |-> CLEANING_VERSION,
                       final_rows |-> Cardinality(kept)]
        IN  Returned(<<clean, report>>)

\* the number of times clean_data calls a validator: none before the checks
\* of lines 91 and 127; then, per validated column, Series.apply calls the
\* validator on every row left after duplicate removal, twice (lines 142-143,
\* 147-148, 152-153, 157-158), up to the first column whose lookup raises
\* KeyError; then clean_text on every retained row of each optional column
\* that is present (lines 164-166)
ValidatorCalls(df_in, drop_duplicates, required_columns) ==
    IF Empty(df_in) THEN 0
    ELSE
    LET df0      == Renamed(CopyOf(df_in))
        required == IF required_columns # <<>> THEN required_columns ELSE REQUIRED_COLUMNS
        deduped  == IF drop_duplicates THEN FirstOccurrences(df0.data) ELSE DOMAIN df0.data
        absent   == {k \in DOMAIN ValidatedColumns : ~HasColumn(df0, ValidatedColumns[k])}
    IN  IF Range(required) \ Range(df0.columns) # {} THEN 0
        ELSE IF absent # {}
        THEN 2 * Cardinality(deduped) * ((CHOOSE k \in absent : \A j \in absent : k <= j) - 1)
        ELSE 2 * Cardinality(deduped) * Len(ValidatedColumns)
             + Len(clean_data(df_in, drop_duplicates, required_columns).value[1][1].index)
               * Cardinality(Range(OPTIONAL_COLUMNS) \cap Range(df0.columns))

(***************************************************************************)
(* Python dict: d.get(k) is an Option, <<>> for None and <<v>> otherwise,  *)
(* and so is every value that the code stores from a .get().               *)
(***************************************************************************)
Get(d, k) == IF k \in DOMAIN d THEN <<d[k]>> ELSE <<>>

\* d[k] = v
Put(d, k, v) == (k :> v) @@ d

\* d.setdefault(k, v)
SetDefault(d, k, v) == IF k \in DOMAIN d THEN d ELSE Put(d, k, v)

EmptyDict == <<>>

\* not d
IsEmptyDict(d) == DOMAIN d = {}

(***************************************************************************)
(* Python float arithmetic of the drop rate.  A non-negative binary64      *)
(* value is [int, frac]: its integer part and the bits after the binary    *)
(* point (trailing zero bits do not matter).  Every operation rounds to    *)
(* MantissaBits significant bits, to nearest, ties to even, as the         *)
(* hardware does.                                                          *)
(***************************************************************************)
MantissaBits == 53

\* bit i of a fraction, the bits after its last being 0
BitAt(bits, i) == IF i <= Len(bits) THEN bits[i] ELSE 0

Zeros(n) == AsSeq([i \in 1..n |-> 0])

\* the position of the last 0 bit (0 if there is none)
LastZero(bits) ==
    IF \A i \in DOMAIN bits : bits[i] = 1 THEN 0
    ELSE CHOOSE i \in DOMAIN bits :
             bits[i] = 0 /\ \A j \in (i + 1)..Len(bits) : bits[j] = 1

\* bits + 1 at the last position, the carry out in front
AddOne(bits) ==
    IF LastZero(bits) = 0 THEN <<1>> \o Zeros(Len(bits))
    ELSE <<0>> \o SubSeq(bits, 1, LastZero(bits) - 1) \o <<1>>
             \o Zeros(Len(bits) - LastZero(bits))

RECURSIVE BitLen(_)
BitLen(n) == IF n = 0 THEN 0 ELSE 1 + BitLen(n \div 2)

\* the number of zero bits before the first one bit (Len(bits) if there is none)
LeadingZeros(bits) ==
    IF \A i \in DOMAIN bits : bits[i] = 0 THEN Len(bits)
    ELSE (CHOOSE i \in DOMAIN bits :
              bits[i] = 1 /\ \A j \in 1..(i - 1) : bits[j] = 0) - 1

\* x rounded to MantissaBits significant bits
RoundToDouble(x) ==
    LET keep == IF x.int > 0 THEN MantissaBits - BitLen(x.int)
                ELSE LeadingZeros(x.frac) + MantissaBits
    IN  IF Len(x.frac) <= keep THEN x
        ELSE LET kept   == SubSeq(x.frac, 1, keep)
                 half   == x.frac[keep + 1] = 1
                 sticky == \E i \in (keep + 2)..Len(x.frac) : x.frac[i] = 1
                 odd    == IF keep > 0 THEN kept[keep] = 1 ELSE x.int % 2 = 1
                 up     == AddOne(kept)
             IN  IF half /\ (sticky \/ odd)
                 THEN [int |-> x.int + Head(up), frac |-> Tail(up)]
                 ELSE [int |-> x.int, frac |-> kept]

\* 2^k modulo d, by repeated squaring
RECURSIVE PowerOfTwoMod(_, _)
PowerOfTwoMod(k, d) ==
    IF k = 0 THEN 1 % d
    ELSE LET half == PowerOfTwoMod(k \div 2, d)
         IN  (half * half * (IF k % 2 = 1 THEN 2 ELSE 1)) % d

\* what long division of r by d (0 <= r < d) leaves after i bits of the
\* quotient: r * 2^i modulo d
Remainder(r, d, i) == (r * PowerOfTwoMod(i, d)) % d

\* bit i of r / d after the binary point
QuotientBit(r, d, i) == (2 * Remainder(r, d, i - 1)) \div d

\* the first n bits of r / d after the binary point
LongDivide(r, d, n) == AsSeq([i \in 1..n |-> QuotientBit(r, d, i)])

\* the number of zero bits r / d starts with after the binary point (0 < r < d)
RECURSIVE QuotientLeadingZeros(_, _)
QuotientLeadingZeros(r, d) ==
    IF 2 * r >= d THEN 0 ELSE 1 + QuotientLeadingZeros(2 * r, d)

\* the quotient bits rounded to nearest, ties to even; rem is what the
\* division left
RoundQuotient(bits, rem, d) ==
    IF 2 * rem > d \/ (2 * rem = d /\ bits[Len(bits)] = 1)
    THEN [int |-> Head(AddOne(bits)), frac |-> Tail(AddOne(bits))]
    ELSE [int |-> 0, frac |-> bits]

\* the float n / d for integers 0 <= n <= d, d > 0: the true division of
\* two ints, and the value of a decimal literal such as 0.10 = 10 / 100
FloatQuotient(n, d) ==
    IF n = d THEN [int |-> 1, frac |-> <<>>]
    ELSE IF n = 0 THEN [int |-> 0, frac |-> <<>>]
    ELSE RoundQuotient(LongDivide(n, d, QuotientLeadingZeros(n, d) + MantissaBits),
                       Remainder(n, d, QuotientLeadingZeros(n, d) + MantissaBits), d)

\* the float 1 - x for a float 0 <= x <= 1
OneMinus(x) ==
    IF x.int = 1 THEN [int |-> 0, frac |-> <<>>]
    ELSE IF \A i \in 1..Len(x.frac) : x.frac[i] = 0 THEN [int |-> 1, frac |-> <<>>]
    ELSE LET flipped == AsSeq([i \in 1..Len(x.frac) |-> 1 - x.frac[i]])
         IN  RoundToDouble([int |-> 0, frac |-> Tail(AddOne(flipped))])

\* the bits in groups of eight, each group as a number below 256
ByteAt(bits, k) ==
    LET b(j) == BitAt(bits, 8 * (k - 1) + j)
    IN  128 * b(1) + 64 * b(2) + 32 * b(3) + 16 * b(4) + 8 * b(5) + 4 * b(6) + 2 * b(7) + b(8)

BytesOf(bits) == AsSeq([k \in 1..((Len(bits) + 7) \div 8) |-> ByteAt(bits, k)])

BitsOf(bytes) ==
    AsSeq([i \in 1..(8 * Len(bytes)) |->
               (bytes[((i - 1) \div 8) + 1] \div 2^(7 - ((i - 1) % 8))) % 2])

\* bytes * m + carry, from the last byte up: the new bytes and the carry out
RECURSIVE TimesBytes(_, _, _, _)
TimesBytes(bytes, m, carry, acc) ==
    IF bytes = <<>> THEN <<acc, carry>>
    ELSE TimesBytes(SubSeq(bytes, 1, Len(bytes) - 1), m,
                    (bytes[Len(bytes)] * m + carry) \div 256,
                    <<(bytes[Len(bytes)] * m + carry) % 256>> \o acc)

\* the integer part x_int * m plus the carry out, and the product's bits
Product(x_int, m, p) == [int |-> x_int * m + p[2], frac |-> BitsOf(p[1])]

\* the exact product x * m for a small natural m
Times(x, m) ==
    Only({Product(x.int, m, p) : p \in {TimesBytes(bytes, m, 0, <<>>) : bytes \in {BytesOf(x.frac)}}})

\* a < b for two fractions: a has the 0 where they first differ
FracLess(a, b) ==
    \E i \in 1..(IF Len(a) > Len(b) THEN Len(a) ELSE Len(b)) :
        /\ BitAt(a, i) < BitAt(b, i)
        /\ \A j \in 1..(i - 1) : BitAt(a, j) = BitAt(b, j)

\* x < y
FloatLess(x, y) == x.int < y.int \/ (x.int = y.int /\ FracLess(x.frac, y.frac))

\* x rounded to an integer, ties to even: the digits a fixed-point format keeps
RoundHalfEven(x) ==
    IF x.frac = <<>> \/ Head(x.frac) = 0 THEN x.int
    ELSE IF (\E i \in 2..Len(x.frac) : x.frac[i] = 1) \/ x.int % 2 = 1 THEN x.int + 1
    ELSE x.int

RECURSIVE DecimalDigits(_)
DecimalDigits(n) ==
    IF n < 10 THEN <<DigitSeq[n + 1]>> ELSE DecimalDigits(n \div 10) \o <<DigitSeq[(n % 10) + 1]>>

\* f"{x:.2%}": x * 100 as a float, then two decimals and a percent sign
FormatPercent(x) ==
    Only({DecimalDigits(hundredths \div 100) \o <<".">>
              \o <<DigitSeq[((hundredths \div 10) % 10) + 1], DigitSeq[(hundredths % 10) + 1]>>
              \o <<"%">> :
          hundredths \in {RoundHalfEven(product) :
                          product \in {Times(percent, 100) :
                                       percent \in {RoundToDouble(exact) :
                                                    exact \in {Times(x, 100)}}}}})

(***************************************************************************)
(* Grading: the drop rate and its severity (src/main.py 255-262 and the    *)
(* same lines of src/excel_writer.py 91-101).                              *)
(***************************************************************************)
\* 1 - (final_rows / original_rows); original_rows = 0 raises ZeroDivisionError
DropRate(report) == OneMinus(FloatQuotient(report["final_rows"], report["original_rows"]))

LOW == "LOW"

MEDIUM == "MEDIUM"

\* "HIGH" followed by a space and the warning sign U+26A0 U+FE0F
HIGH == "HIGH (!)"

\* the float literals 0.10 and 0.30
LowBelow == FloatQuotient(10, 100)

MediumUpTo == FloatQuotient(30, 100)

Severity(drop_rate) ==
    IF FloatLess(drop_rate, LowBelow) THEN LOW
    ELSE IF ~FloatLess(MediumUpTo, drop_rate) THEN MEDIUM
    ELSE HIGH

(***************************************************************************)
(* Loading (src/loader.py).  A data file is [header, rows]: the texts of   *)
(* its header line and, per record, of its fields, None for an empty       *)
(* field.                                                                  *)
(***************************************************************************)
NaN == <<2, 0, 0, 0>>

\* the text of a field that the parser reads as a number
IsNumberText(v) ==
    /\ v # None
    /\ AllIn(v, DigitChars \cup {"-", "."})
    /\ ParseFloat(v) # NoFloat

\* pandas.read_csv: a column whose fields are all numbers or empty gets a
\* numeric dtype and its fields become numbers, NaN for an empty one; a
\* file without records gives columns of dtype object
read_csv(file) ==
    LET n       == Len(file.rows)
        numeric == {k \in DOMAIN file.header :
                       n > 0 /\ \A i \in 1..n : file.rows[i][k] = None \/ IsNumberText(file.rows[i][k])}
    IN  [obj     |-> "read_csv",
         columns |-> file.header,
         index   |-> AsSeq([i \in 1..n |-> i - 1]),
         data    |-> AsSeq([i \in 1..n |->
                        AsSeq([k \in DOMAIN file.header |->
                            IF k \notin numeric THEN file.rows[i][k]
                            ELSE IF file.rows[i][k] = None THEN NaN
                            ELSE ParseFloat(file.rows[i][k])])]),
         numeric |-> {file.header[k] : k \in numeric}]

COLUMN_ALIASES ==
    << <<col_id, <<col_id, <<"I","D">>>> >>,
       <<col_name, <<col_name, <<"N","a","m","e">>>> >>,
       <<col_email, <<col_email, <<"E","m","a","i","l">>>> >>,
       <<col_phone, <<col_phone, <<"P","h","o","n","e">>>> >>,
       <<col_salary, <<col_salary, <<"S","a","l","a","r","y">>>> >>,
       <<col_date_joined, <<col_date_joined, <<"D","a","t","e">>,
                            <<"J","o","i","n","D","a","t","e">>,
                            <<"J","o","i","n","i","n","g","D","a","t","e">>>> >>,
       <<col_department, <<col_department, <<"D","e","p","t">>,
                           <<"D","i","v","i","s","i","o","n">>>> >>,
       <<col_notes, <<col_notes, <<"R","e","m","a","r","k","s">>,
                      <<"C","o","m","m","e","n","t","s">>>> >> >>

\* rename_map: the last expected name one of whose aliases, lowercased, is c
RenameOf(c) ==
    LET hits == {e \in DOMAIN COLUMN_ALIASES :
                    \E a \in DOMAIN COLUMN_ALIASES[e][2] : Lower(COLUMN_ALIASES[e][2][a]) = c}
    IN  IF hits = {} THEN c
        ELSE COLUMN_ALIASES[CHOOSE e \in hits : \A h \in hits : h <= e][1]

\* loader.normalize_columns: strip and lowercase the labels, then rename the aliases
normalize_columns(loaded_df) ==
    LET lowered == AsSeq([k \in DOMAIN loaded_df.columns |-> Lower(Strip(loaded_df.columns[k]))])
    IN  [loaded_df EXCEPT !.obj = "rename",
                      !.columns = AsSeq([k \in DOMAIN lowered |-> RenameOf(lowered[k])]),
                      !.numeric = {RenameOf(Lower(Strip(c))) : c \in loaded_df.numeric}]

\* load_csv(filepath, encoding).  exists: the path exists; readable:
\* pandas.read_csv raises nothing; required_env: the names listed in the
\* environment variable REQUIRED_COLUMNS, <<>> when it is unset or blank
load_csv(file, exists, readable, required_env) ==
    IF ~exists THEN Raised("DataLoadError", "LOAD_FILE_NOT_FOUND", <<>>)
    ELSE IF ~readable THEN Raised("DataLoadError", "LOAD_GENERIC_ERROR", <<>>)
    ELSE LET loaded  == normalize_columns(read_csv(file))
             missing == Range(required_env) \ Range(loaded.columns)
         IN  \* the DataLoadError about the missing columns is raised inside
             \* the try block, whose  except Exception  replaces it
             IF required_env # <<>> /\ missing # {}
             THEN Raised("DataLoadError", "LOAD_GENERIC_ERROR", <<>>)
             ELSE Returned(loaded)

SheetName == "Sheet1"

\* load_excel(filepath) with sheet_name=None: a dict of the sheets' tables
load_excel(file, exists, readable) ==
    IF ~exists THEN Raised("DataLoadError", "LOAD_FILE_NOT_FOUND", <<>>)
    ELSE IF ~readable THEN Raised("DataLoadError", "LOAD_GENERIC_ERROR", <<>>)
    ELSE Returned(SheetName :> normalize_columns(read_csv(file)))

\* isinstance(value, pd.DataFrame), for a DataFrame or a dict of sheets
IsDataFrame(value) == "columns" \in DOMAIN value

(***************************************************************************)
(* handle_schema_drift (src/main.py): every absent expected column is      *)
(* added, filled with None, and the expected columns are selected.         *)
(***************************************************************************)
EXPECTED_COLUMNS == REQUIRED_COLUMNS \o OPTIONAL_COLUMNS

\* set(REQUIRED_COLUMNS) - set(df.columns)
MissingRequired(loaded_df) == Range(REQUIRED_COLUMNS) \ Range(loaded_df.columns)

handle_schema_drift(loaded_df) ==
    [obj     |-> "handle_schema_drift",
     columns |-> EXPECTED_COLUMNS,
     index   |-> loaded_df.index,
     data    |-> AsSeq([i \in DOMAIN loaded_df.data |->
                    AsSeq([k \in DOMAIN EXPECTED_COLUMNS |->
                        IF HasColumn(loaded_df, EXPECTED_COLUMNS[k])
                        THEN Cell(loaded_df, i, EXPECTED_COLUMNS[k]) ELSE None])]),
     numeric |-> loaded_df.numeric \cap Range(EXPECTED_COLUMNS)]

(***************************************************************************)
(* analyze_data (src/analyzer.py).  A statistic is the exact rational      *)
(* <<numerator, denominator>> of the float the code computes, <<>> for     *)
(* NaN; a correlation coefficient is <<Sxy, Sxx, Syy>>, which stands for    *)
(* Sxy / sqrt(Sxx * Syy), and <<>> for NaN.                                *)
(***************************************************************************)
ANALYSIS_VERSION == "1.0"

RECURSIVE Pow10(_)
Pow10(n) == IF n = 0 THEN 1 ELSE 10 * Pow10(n - 1)

\* the rows of column c that hold a number (skipna)
NumberRows(table, c) == {i \in DOMAIN table.data : Cell(table, i, c)[1] = 0}

\* the largest number of decimals among the numbers of column c
ColumnScale(table, c) ==
    LET scales == {Cell(table, i, c)[4] : i \in NumberRows(table, c)} \cup {0}
    IN  CHOOSE m \in scales : \A x \in scales : x <= m

\* the number at row i of column c, in units of 10^-ColumnScale
Scaled(table, i, c) ==
    LET v == Cell(table, i, c)
    IN  (IF v[2] = 1 THEN 0 - v[3] ELSE v[3]) * Pow10(ColumnScale(table, c) - v[4])

RECURSIVE SumOf(_, _)
SumOf(f, S) ==
    IF S = {} THEN 0
    ELSE LET x == CHOOSE y \in S : TRUE IN f[x] + SumOf(f, S \ {x})

ColumnValues(table, c) == [i \in NumberRows(table, c) |-> Scaled(table, i, c)]

ColumnSum(table, c) ==
    <<SumOf(ColumnValues(table, c), NumberRows(table, c)), Pow10(ColumnScale(table, c))>>

ColumnMean(table, c) ==
    IF NumberRows(table, c) = {} THEN <<>>
    ELSE <<SumOf(ColumnValues(table, c), NumberRows(table, c)),
           Cardinality(NumberRows(table, c)) * Pow10(ColumnScale(table, c))>>

ColumnMin(table, c) ==
    IF NumberRows(table, c) = {} THEN <<>>
    ELSE LET vals == {Scaled(table, i, c) : i \in NumberRows(table, c)}
         IN  <<CHOOSE m \in vals : \A x \in vals : m <= x, Pow10(ColumnScale(table, c))>>

ColumnMax(table, c) ==
    IF NumberRows(table, c) = {} THEN <<>>
    ELSE LET vals == {Scaled(table, i, c) : i \in NumberRows(table, c)}
         IN  <<CHOOSE m \in vals : \A x \in vals : x <= m, Pow10(ColumnScale(table, c))>>

\* DataFrame.corr() at (a, b): Pearson's r over the rows where both are numbers
Correlation(table, a, b) ==
    LET rows == NumberRows(table, a) \cap NumberRows(table, b)
        n    == Cardinality(rows)
        x    == [i \in rows |-> Scaled(table, i, a)]
        y    == [i \in rows |-> Scaled(table, i, b)]
        sx   == SumOf(x, rows)
        sy   == SumOf(y, rows)
        Sxy  == n * SumOf([i \in rows |-> x[i] * y[i]], rows) - sx * sy
        Sxx  == n * SumOf([i \in rows |-> x[i] * x[i]], rows) - sx * sx
        Syy  == n * SumOf([i \in rows |-> y[i] * y[i]], rows) - sy * sy
    IN  IF n < 2 \/ Sxx = 0 \/ Syy = 0 THEN <<>> ELSE <<Sxy, Sxx, Syy>>

\* df.isna().sum() at column c
NullCount(table, c) ==
    IF c \in table.numeric
    THEN Cardinality({i \in DOMAIN table.data : Cell(table, i, c)[1] = 2})
    ELSE Cardinality({i \in DOMAIN table.data :
                         Cell(table, i, c) = None \/ Cell(table, i, c) = <<>>})

\* a metadata that lists every column with its null count
MissingValuesOfAllColumns(table) == [c \in Range(table.columns) |-> NullCount(table, c)]

\* lines 33-34: missing = df.isna().sum(); missing[missing > 0].to_dict()
MissingValues(table) ==
    [c \in {c \in Range(table.columns) : NullCount(table, c) > 0} |-> NullCount(table, c)]

\* a cap without its upper end
CorrelationUncapped(numeric_df) == 2 <= Len(numeric_df)

\* line 56: 2 <= numeric_df.shape[1] <= 10
CorrelationCapped(numeric_df) == 2 <= Len(numeric_df) /\ Len(numeric_df) <= 10

\* numeric_columns is the allowlist, <<>> standing for None and for []
analyze_data(table, numeric_columns) ==
    IF Empty(table) THEN Returned(EmptyDict)
    ELSE IF numeric_columns # <<>> /\ Range(numeric_columns) \ Range(table.columns) # {}
    \* the AnalysisError that names the missing columns is raised inside the
    \* try block, whose  except Exception  replaces it
    THEN Raised("AnalysisError", "Analysis stage failed", <<>>)
    ELSE
    LET numeric_df == IF numeric_columns # <<>> THEN Filter(numeric_columns, table.numeric)
                      ELSE Filter(table.columns, table.numeric)
        cols       == Range(numeric_df)
        missing    == MissingValues(table)
        meta       == [row_count |-> Len(table.index),
                       column_count |-> Len(table.columns),
                       numeric_columns |-> numeric_df,
                       missing_values |-> missing,
                       analysis_version |-> ANALYSIS_VERSION]
        statistics == [mean |-> [c \in cols |-> ColumnMean(table, c)],
                       min  |-> [c \in cols |-> ColumnMin(table, c)],
                       max  |-> [c \in cols |-> ColumnMax(table, c)],
                       sum  |-> [c \in cols |-> ColumnSum(table, c)]]
        correlation == [a \in cols |-> [b \in cols |-> Correlation(table, a, b)]]
    IN  Returned(("meta" :> meta)
                 @@ (IF numeric_df # <<>> THEN "statistics" :> statistics ELSE EmptyDict)
                 @@ (IF CorrelationCapped(numeric_df)
                     THEN "correlation" :> correlation ELSE EmptyDict))

(***************************************************************************)
(* write_analysis_to_excel (src/excel_writer.py).  A str that the code     *)
(* takes from a literal is a TLA+ string; a str it computes is a sequence  *)
(* of characters.                                                          *)
(***************************************************************************)
REPORT_VERSION == "2.0"

LogEntry(level, event, detail) == [level |-> level, event |-> event, detail |-> detail]

\* lines 88-103: the fallback grading, which sets DROP_RATE and SEVERITY
\* in the caller's dict unless they are there already; the division raises
\* ZeroDivisionError when original_rows is 0 and the except clause logs it
FallbackGraded(report) ==
    IF report["original_rows"] = 0 THEN report
    ELSE Only({SetDefault(SetDefault(report, "DROP_RATE", FormatPercent(drop_rate)),
                          "SEVERITY", Severity(drop_rate)) :
               drop_rate \in {DropRate(report)}})

FallbackLog(report) ==
    IF report["original_rows"] = 0
    THEN <<LogEntry("WARNING", "Failed to compute drop rate/severity", "ZeroDivisionError")>>
    ELSE <<>>

\* lines 106-117: summary_data, the rows of the Pipeline Summary sheet
SummaryData(report) ==
    ("Rows Loaded" :> Get(report, "ROWS_LOADED"))
    @@ ("Rows Cleaned" :> Get(report, "ROWS_CLEANED"))
    @@ ("Drop Rate" :> Get(report, "DROP_RATE"))
    @@ ("Severity" :> Get(report, "SEVERITY"))
    @@ ("Drop Rate Threshold" :> Get(report, "DROP_RATE_THRESHOLD"))
    @@ ("Drop Rate Alert" :> Get(report, "DROP_RATE_ALERT"))
    @@ ("Invalid Emails Dropped" :> IF "invalid_emails_dropped" \in DOMAIN report
                                    THEN <<report["invalid_emails_dropped"]>> ELSE <<0>>)
    @@ ("Invalid Emails Threshold" :> Get(report, "INVALID_EMAILS_THRESHOLD"))
    @@ ("Invalid Emails Alert" :> Get(report, "INVALID_EMAILS_ALERT"))
    @@ ("Pipeline Version" :> Get(report, "PIPELINE_VERSION"))

\* the rows of the summary whose value can be the str "EXCEEDED" or "OK"
\* (the other rows hold numbers and computed texts)
FlagRows == {"Drop Rate Alert", "Invalid Emails Alert"}

\* lines 155-166: the fill of each summary value
SummaryFills(summary) ==
    [k \in FlagRows |->
        IF summary[k] = <<"EXCEEDED">> THEN "red"
        ELSE IF summary[k] = <<"OK">> THEN "green"
        ELSE "none"]

\* the sheets of the workbook, by name; report is the caller's dict after the
\* fallback grading
Sheets(results, clean_table, report) ==
    ("Metadata" :> [report_version   |-> REPORT_VERSION,
                    analysis_version |-> IF "meta" \in DOMAIN results
                                         THEN results["meta"]["analysis_version"]
                                         ELSE "unknown"])
    @@ (IF "meta" \in DOMAIN results THEN "Meta" :> results["meta"] ELSE EmptyDict)
    @@ (IF "statistics" \in DOMAIN results
        THEN "Statistics" :> results["statistics"] ELSE EmptyDict)
    @@ (IF "correlation" \in DOMAIN results
        THEN "Correlation" :> results["correlation"] ELSE EmptyDict)
    @@ (IF clean_table # <<>> /\ ~Empty(clean_table[1])
        THEN "Cleaned Data" :> clean_table[1] ELSE EmptyDict)
    @@ (IF report # <<>> /\ ~IsEmptyDict(report[1])
        THEN "Pipeline Summary" :> SummaryData(report[1]) ELSE EmptyDict)

sheet_order ==
    <<"Metadata", "Meta", "Statistics", "Correlation", "Cleaned Data", "Pipeline Summary">>

ReportPath == "data/reports/analysis_report.xlsx"

WriterFaults == {"none", "open", "close", "format"}

(***************************************************************************)
(* The call write_analysis_to_excel(results, filename, clean_df=...,       *)
(* cleaning_report=...), clean_table and report being <<>> for None.       *)
(* fault is where the file system or openpyxl raises: "open" when the      *)
(* ExcelWriter is created, "close" when it saves on leaving the with       *)
(* block, "format" in load_workbook .. wb.save.  The outcome is            *)
(*   raised, exc      the ReportError, if any                              *)
(*   value            the returned dict                                    *)
(*   cleaning_report  the caller's dict after the call                     *)
(*   workbook         the file on disk, <<>> if there is none              *)
(*   log              what was logged                                      *)
(***************************************************************************)
WriterOutcome(report, fault, graded, sheets) ==
    LET logged  == IF report # <<>> /\ ~IsEmptyDict(report[1]) /\ fault # "open"
                   THEN FallbackLog(report[1]) ELSE <<>>
        written == [sheets |-> sheets,
                    fills  |-> IF "Pipeline Summary" \in DOMAIN sheets /\ fault = "none"
                               THEN SummaryFills(sheets["Pipeline Summary"])
                               ELSE EmptyDict]
    IN  IF fault # "none"
        THEN [raised |-> TRUE, value |-> <<>>,
              exc |-> <<[type |-> "ReportError", kind |-> "Excel writing failed",
                         detail |-> <<>>]>>,
              cleaning_report |-> graded,
              workbook |-> IF fault = "format" THEN <<written>> ELSE <<>>,
              log |-> logged \o <<LogEntry("ERROR", "Failed to write Excel report.", fault)>>]
        ELSE [raised |-> FALSE,
              value |-> <<[filepath |-> ReportPath,
                           sheets_written |-> Filter(sheet_order, DOMAIN sheets)]>>,
              exc |-> <<>>,
              cleaning_report |-> graded,
              workbook |-> <<written>>,
              log |-> logged \o <<LogEntry("INFO", "Excel report written successfully", "")>>]

write_analysis_to_excel(results, clean_table, report, fault) ==
    IF IsEmptyDict(results)
    THEN [raised |-> TRUE, value |-> <<>>,
          exc |-> <<[type |-> "ReportError", kind |-> "No analysis results to write.",
                     detail |-> <<>>]>>,
          cleaning_report |-> report, workbook |-> <<>>,
          log |-> <<LogEntry("WARNING", "No analysis results provided.", "")>>]
    ELSE Only({WriterOutcome(report, fault, graded,
                             IF fault \in {"none", "format"}
                             THEN Sheets(results, clean_table, graded) ELSE EmptyDict) :
               graded \in {IF report # <<>> /\ ~IsEmptyDict(report[1]) /\ fault # "open"
                           THEN <<FallbackGraded(report[1])>> ELSE report}})

(***************************************************************************)
(* Email (src/emailer.py).  The text of the template is not part of the    *)
(* sources; it is taken to use the placeholders that the pipeline          *)
(* provides.  The rendered body keeps, per placeholder, the value that     *)
(* safe_substitute wrote, <<>> for a placeholder left as it is.            *)
(***************************************************************************)
TemplatePlaceholders ==
    {"CLIENT_NAME", "EMAIL_FREQUENCY", "ROWS_LOADED", "ROWS_CLEANED", "PIPELINE_VERSION",
     "REPORT_PATH", "MEAN_VALUES", "MIN_VALUES", "MAX_VALUES", "DROP_RATE", "SEVERITY"}

\* load_template(template_file, context); found: the template file exists
load_template(context, found) ==
    IF ~found THEN Raised("EmailError", "Email template not found", <<>>)
    ELSE Returned([k \in TemplatePlaceholders |-> Get(context, k)])

(***************************************************************************)
(* Bounds and the input tables of the model.                               *)
(***************************************************************************)
\* the largest number of rows of an input table
MaxRows == 2

RECURSIVE RowsOf(_)
RowsOf(columns) ==
    IF columns = <<>> THEN {<<>>}
    ELSE {<<c>> \o r : c \in CellDomain(Head(columns)), r \in RowsOf(Tail(columns))}

\* the table of str cells with the given column labels and rows, labelled
\* 0, 1, ... as a RangeIndex
Table(columns, rows) ==
    [obj     |-> "caller",
     columns |-> columns,
     index   |-> AsSeq([i \in DOMAIN rows |-> i - 1]),
     data    |-> AsSeq(rows),
     numeric |-> {}]

RawHeader == << <<" ","I","D">>, <<"N","a","m","e">>, <<"E","m","a","i","l"," ">>,
                <<"P","H","O","N","E">>, <<"S","a","l","a","r","y">>,
                <<"D","a","t","e"," ","J","o","i","n","e","d">> >>

CleanerLayouts ==
    { REQUIRED_COLUMNS,
      RawHeader \o <<col_notes, col_badge>>,
      <<col_id, col_name, col_email, col_salary, col_date_joined>>,
      <<col_id, col_name, col_salary, col_date_joined>> }

\* required_columns: None, or a caller's own list
RequiredArgs == {<<>>, <<col_id, col_email>>}

\* the largest number of records of a data file with mixed records
MaxFileRows == 2

\* the largest number of records of a data file whose first records are
\* valid and whose other records have a bad email
MaxOriginal == 10

ValidEmail == <<"a","@","b",".","c","o">>

ValidPhone == <<"+","1"," ","5","5","5","-","0","1","0","0">>

ValidSalary == <<"$","1",",","2","0","0">>

ValidDate == <<"2","0","2","1","-","0","3","-","1","5">>

\* the email, phone, salary and date_joined fields of a record
RecordKinds ==
    { <<ValidEmail, ValidPhone, ValidSalary, ValidDate>>,
      <<<<" ","A","@","b",".","C","O">>, ValidPhone, ValidSalary, ValidDate>>,
      <<<<"b","a","d">>, <<"5","5","5","-","0","1">>, ValidSalary, ValidDate>>,
      <<ValidEmail, ValidPhone, <<"-","5">>, ValidDate>>,
      <<ValidEmail, ValidPhone, ValidSalary, <<"2","0","2","1","-","0","2","-","3","0">>>> }

\* header lines: the expected names, aliases with an optional and an
\* unexpected column, a file without phone, a file without id
FileHeaders ==
    { REQUIRED_COLUMNS,
      <<<<"I","D">>, <<"N","a","m","e">>, <<"E","m","a","i","l"," ">>, <<"P","h","o","n","e">>,
        <<"S","a","l","a","r","y">>, <<"J","o","i","n","D","a","t","e">>, <<"R","e","m","a","r","k","s">>, col_badge>>,
      <<col_id, col_name, col_email, col_salary, col_date_joined>>,
      <<col_name, col_email, col_phone, col_salary, col_date_joined>> }

\* the field of a record under the header label whose loaded name is c
Field(c, id, kind) ==
    CASE c = col_id          -> id
      [] c = col_name        -> <<"A","n","n">>
      [] c = col_email       -> kind[1]
      [] c = col_phone       -> kind[2]
      [] c = col_salary      -> kind[3]
      [] c = col_date_joined -> kind[4]
      [] c = col_notes       -> <<" ","o","k"," ">>
      [] OTHER               -> <<"x">>

Record(header, id, kind) ==
    AsSeq([k \in DOMAIN header |-> Field(RenameOf(Lower(Strip(header[k]))), id, kind)])

\* the files of at most MaxFileRows records of any kinds, all with id 7
MixedFiles ==
    UNION { { [header |-> header,
               rows   |-> AsSeq([i \in 1..n |-> Record(header, <<"7">>, kinds[i])])] :
              kinds \in [1..n -> RecordKinds] } :
            header \in FileHeaders, n \in 0..MaxFileRows }

\* the file of original records with ids 1, 2, ..., of which the first
\* final are valid and the others have a bad email
GradedFile(original, final) ==
    [header |-> REQUIRED_COLUMNS,
     rows   |-> AsSeq([i \in 1..original |->
                    Record(REQUIRED_COLUMNS, DecimalDigits(i),
                           IF i <= final
                           THEN <<ValidEmail, ValidPhone, ValidSalary, ValidDate>>
                           ELSE <<<<"b","a","d">>, ValidPhone, ValidSalary, ValidDate>>)])]

GradedFiles == UNION {{GradedFile(o, f) : f \in 0..o} : o \in 1..MaxOriginal}

DataFiles == MixedFiles \cup GradedFiles

\* the values of the environment variable REQUIRED_COLUMNS: unset, or the six names
RequiredEnv == {<<>>, REQUIRED_COLUMNS}

\* ALERT_DROP_RATE as a fraction <<n, d>> (default 0.5) and ALERT_INVALID_EMAILS
\* (default 1000)
DropRateThresholds == {<<5, 10>>, <<25, 100>>}

InvalidEmailThresholds == {1000, 0}

\* a cleaning report of original rows of which final are left, the others
\* dropped for their email
ReportOf(original, final) ==
    [EmptyReport EXCEPT !.original_rows = original, !.final_rows = final,
                        !.invalid_emails_dropped = original - final]

\* an analysis result without numeric columns
ResultOf(rows) ==
    "meta" :> [row_count |-> rows, column_count |-> Len(EXPECTED_COLUMNS),
               numeric_columns |-> <<>>, missing_values |-> EmptyDict,
               analysis_version |-> ANALYSIS_VERSION]

\* the largest number of numeric columns of a table handed to analyze_data
MaxNumeric == 11

\* the largest number of rows of a table handed to analyze_data
MaxAnalysisRows == 2

\* the label of the j-th numeric column: c1, c2, ...
NumericName(j) == <<"c">> \o DecimalDigits(j)

\* a table of n numeric columns, followed by the column name when text
\* holds; the first nulls cells of the numeric column nullcol are NaN and,
\* when textnull holds, the first name is None
AnalysisTable(n, text, rows, nullcol, nulls, textnull) ==
    [obj     |-> "caller",
     columns |-> AsSeq([j \in 1..n |-> NumericName(j)]) \o (IF text THEN <<col_name>> ELSE <<>>),
     index   |-> AsSeq([i \in 1..rows |-> i - 1]),
     data    |-> AsSeq([i \in 1..rows |->
                    AsSeq([j \in 1..n |-> IF j = nullcol /\ i <= nulls THEN NaN
                                          ELSE <<0, 0, i * j + (i - 1) * (j % 3), 0>>])
                    \o (IF text THEN <<IF textnull /\ i = 1 THEN None ELSE <<"A","n","n">>>>
                        ELSE <<>>)]),
     numeric |-> {NumericName(j) : j \in 1..n}]

\* numeric_columns: None, or a caller's list
Allowlists ==
    {<<>>, <<NumericName(1)>>, <<NumericName(2), NumericName(1)>>,
     <<col_name, NumericName(1)>>, <<NumericName(1), col_badge, NumericName(3)>>}

\* the largest number of digits in a run of digits of a phone input
MaxPhoneDigits == 16

\* n times the digit 5
Fives(n) == AsSeq([i \in 1..n |-> "5"])

\* phone inputs: two runs of digits with text before, between and after
\* them, and None for a value that is no str
PhoneInputs ==
    {before \o Fives(a) \o between \o Fives(b) \o after :
        before \in {<<>>, <<"+">>, <<"+", "+">>, <<" ", "+">>, <<"(">>},
        a \in 0..MaxPhoneDigits,
        between \in {<<>>, <<"+">>, <<"-">>, <<")", " ">>},
        b \in {0, 4},
        after \in {<<>>, <<"\n">>}}
    \cup {None}

\* email inputs: local part, at sign, domain, dot and last label, each
\* well or ill formed, with text before and after, and None for a value
\* that is no str
EmailInputs ==
    {before \o local \o at \o domain \o dot \o tld \o after :
        before \in {<<>>, <<" ">>},
        local \in {<<"a">>, <<"A", ".", "b">>, <<>>, <<"a", " ", "b">>, <<"x", "+", "y", "%">>},
        at \in {<<"@">>, <<>>, <<"@", "@">>},
        domain \in {<<"b">>, <<"B", "-", "c", ".", "d">>, <<>>, <<"b", "_">>},
        dot \in {<<".">>, <<>>},
        tld \in {<<"c", "o">>, <<"C", "O", "M">>, <<"c">>, <<"c", "1">>, <<>>},
        after \in {<<>>, <<"\n">>, <<" ", "x">>}}
    \cup {None}

\* the largest max_retries of a direct call of send_with_backoff
MaxRetriesArg == 5

(***************************************************************************)
(* State.                                                                  *)
(*   pc               where the caller (or the pipeline run) is            *)
(*   df               the table handed to clean_data; in the pipeline,     *)
(*                    what the loader returned and then what               *)
(*                    handle_schema_drift returned; <<>> before it exists  *)
(*   args             clean_data's keyword arguments                       *)
(*   clean_df, cleaning_report                                             *)
(*                    what the caller binds from clean_data's return       *)
(*                    value, <<>> while unbound; cleaning_report is the    *)
(*                    dict that the writer and the pipeline enrich         *)
(*   results          the analysis result, <<>> while unbound              *)
(*   exc              the exception the caller has received, <<>> if none  *)
(*   files            the files written: "processed" the cleaned table,    *)
(*                    "report" the workbook                                *)
(*   locals           the other local variables of run_pipeline_async      *)
(*   outbox           the messages delivered, by email or webhook          *)
(*   log              the log records, oldest first                        *)
(***************************************************************************)
VARIABLES pc, df, args, clean_df, cleaning_report, results, exc, files, locals, outbox, log

vars == <<pc, df, args, clean_df, cleaning_report, results, exc, files, locals, outbox, log>>

DefaultArgs == [drop_duplicates |-> TRUE, required_columns |-> <<>>]

(***************************************************************************)
(* A direct call  clean_df, cleaning_report = clean_data(df, **args).      *)
(***************************************************************************)
InitClean ==
    /\ pc = "clean_data"
    /\ \E columns \in CleanerLayouts, n \in 0..MaxRows :
          \E rows \in [1..n -> RowsOf(NormalizeColumns(columns))] :
              df = <<Table(columns, rows)>>
    /\ args \in [drop_duplicates : BOOLEAN, required_columns : RequiredArgs]
    /\ clean_df = <<>>
    /\ cleaning_report = <<>>
    /\ results = <<>>
    /\ exc = <<>>
    /\ files = EmptyDict
    /\ locals = EmptyDict
    /\ outbox = <<>>
    /\ log = <<>>

CallCleanData ==
    /\ pc = "clean_data"
    /\ \E r \in {clean_data(df[1], args.drop_duplicates, args.required_columns)} :
           IF r.raised
           THEN /\ pc' = "raised"
                /\ exc' = r.exc
                /\ UNCHANGED <<clean_df, cleaning_report>>
           ELSE /\ pc' = "returned"
                /\ clean_df' = <<r.value[1][1]>>
                /\ cleaning_report' = <<r.value[1][2]>>
                /\ exc' = <<>>
    /\ df' = <<CallerTableAfter(df[1])>>
    /\ UNCHANGED <<args, results, files, locals, outbox, log>>

NextClean == CallCleanData

SpecClean == InitClean /\ [][NextClean]_vars

(***************************************************************************)
(* Direct calls of the phone validators on args.value:                     *)
(* validate_phone(value) and normalize_phone(value).                       *)
(***************************************************************************)
InitPhone ==
    /\ pc = "validate_phone"
    /\ args \in {[value |-> v] : v \in PhoneInputs}
    /\ df = <<>>
    /\ clean_df = <<>>
    /\ cleaning_report = <<>>
    /\ results = <<>>
    /\ exc = <<>>
    /\ files = EmptyDict
    /\ locals = EmptyDict
    /\ outbox = <<>>
    /\ log = <<>>

CallPhoneValidators ==
    /\ pc = "validate_phone"
    /\ locals' = [valid      |-> validate_phone(args.value),
                  normalized |-> normalize_phone(args.value)]
    /\ pc' = "returned"
    /\ UNCHANGED <<df, args, clean_df, cleaning_report, results, exc, files, outbox, log>>

NextPhone == CallPhoneValidators

SpecPhone == InitPhone /\ [][NextPhone]_vars

(***************************************************************************)
(* Direct calls of the email validators on args.value: validate_email and  *)
(* fix_email, and both again on what fix_email returned.                   *)
(***************************************************************************)
InitEmail ==
    /\ pc = "validate_email"
    /\ args \in {[value |-> v] : v \in EmailInputs}
    /\ df = <<>>
    /\ clean_df = <<>>
    /\ cleaning_report = <<>>
    /\ results = <<>>
    /\ exc = <<>>
    /\ files = EmptyDict
    /\ locals = EmptyDict
    /\ outbox = <<>>
    /\ log = <<>>

CallEmailValidators ==
    /\ pc = "validate_email"
    /\ locals' = [valid   |-> validate_email(args.value),
                  fixed   |-> fix_email(args.value),
                  revalid |-> validate_email(fix_email(args.value)),
                  refixed |-> fix_email(fix_email(args.value))]
    /\ pc' = "returned"
    /\ UNCHANGED <<df, args, clean_df, cleaning_report, results, exc, files, outbox, log>>

NextEmail == CallEmailValidators

SpecEmail == InitEmail /\ [][NextEmail]_vars

(***************************************************************************)
(* A direct call  results = analyze_data(clean_df, numeric_columns), the   *)
(* allowlist being args.numeric_columns.                                   *)
(***************************************************************************)
InitAnalyze ==
    /\ pc = "analyze_data"
    /\ \E n \in 0..MaxNumeric, text \in BOOLEAN, rows \in 0..MaxAnalysisRows :
          \E nullcol \in {0, 1, n}, nulls \in 1..MaxAnalysisRows, textnull \in BOOLEAN :
              clean_df = <<AnalysisTable(n, text, rows, nullcol, nulls, textnull)>>
    /\ args \in [numeric_columns : Allowlists]
    /\ df = <<>>
    /\ cleaning_report = <<>>
    /\ results = <<>>
    /\ exc = <<>>
    /\ files = EmptyDict
    /\ locals = EmptyDict
    /\ outbox = <<>>
    /\ log = <<>>

CallAnalyzeData ==
    /\ pc = "analyze_data"
    /\ \E r \in {analyze_data(clean_df[1], args.numeric_columns)} :
           IF r.raised
           THEN /\ pc' = "raised"
                /\ exc' = r.exc
                /\ log' = Append(log, LogEntry("ERROR", "Data analysis failed.", ""))
                /\ results' = results
           ELSE /\ pc' = "returned"
                /\ results' = r.value
                /\ log' = IF Empty(clean_df[1])
                           THEN Append(log, LogEntry("WARNING", "No data available for analysis.", ""))
                           ELSE log
                /\ exc' = exc
    /\ UNCHANGED <<df, args, clean_df, cleaning_report, files, locals, outbox>>

NextAnalyze == CallAnalyzeData

SpecAnalyze == InitAnalyze /\ [][NextAnalyze]_vars

(***************************************************************************)
(* A direct call  write_analysis_to_excel(results, filename,               *)
(* cleaning_report=cleaning_report)  with a cleaning report as clean_data  *)
(* returns it, or one that already carries DROP_RATE and SEVERITY.         *)
(***************************************************************************)
InitReport ==
    /\ pc = "write_analysis_to_excel"
    /\ \E original \in 0..MaxOriginal :
          \E final \in 0..original, enriched \in BOOLEAN :
              /\ enriched => original > 0
              /\ cleaning_report =
                     <<IF enriched
                       THEN Only({Put(Put(ReportOf(original, final),
                                          "SEVERITY", Severity(drop_rate)),
                                      "DROP_RATE", FormatPercent(drop_rate)) :
                                  drop_rate \in {DropRate(ReportOf(original, final))}})
                       ELSE ReportOf(original, final)>>
              /\ \E analysed \in BOOLEAN :
                     results = IF analysed THEN <<ResultOf(final)>> ELSE <<EmptyDict>>
    /\ df = <<>>
    /\ args = DefaultArgs
    /\ clean_df = <<>>
    /\ exc = <<>>
    /\ files = EmptyDict
    /\ locals = EmptyDict
    /\ outbox = <<>>
    /\ log = <<>>

CallWriteAnalysis ==
    /\ pc = "write_analysis_to_excel"
    /\ \E fault \in WriterFaults :
         \E r \in {write_analysis_to_excel(results[1], clean_df, cleaning_report, fault)} :
           /\ pc' = IF r.raised THEN "raised" ELSE "returned"
           /\ exc' = r.exc
           /\ cleaning_report' = r.cleaning_report
           /\ files' = IF r.workbook # <<>> THEN Put(files, "report", r.workbook[1]) ELSE files
           /\ locals' = IF r.raised THEN locals ELSE Put(locals, "report_info", r.value[1])
           /\ log' = log \o r.log
    /\ UNCHANGED <<df, args, clean_df, results, outbox>>

NextReport == CallWriteAnalysis

SpecReport == InitReport /\ [][NextReport]_vars

(***************************************************************************)
(* The pipeline run_pipeline_async (src/main.py).  What the environment    *)
(* decides (the variables of the process environment, the file system,     *)
(* the SMTP server, the webhook) is chosen where the code reads it.        *)
(***************************************************************************)
PIPELINE_VERSION == "1.4"

max_retries == 3

delays == <<1, 5, 10>>

\* the exception classes of the except clause of run_pipeline_async
CaughtErrors ==
    {"DataLoadError", "CleaningError", "AnalysisError", "ReportError", "EmailError",
     "PipelineError"}

Exception(type, kind) == <<[type |-> type, kind |-> kind, detail |-> <<>>]>>

\* raise e inside the try block: the except clause takes it if it is one of
\* the pipeline's errors, otherwise it leaves run_pipeline_async
Throw(e) ==
    /\ exc' = e
    /\ pc' = IF e[1].type \in CaughtErrors THEN "except" ELSE "uncaught"

Init ==
    /\ pc = "validate_env"
    /\ df = <<>>
    /\ args = DefaultArgs
    /\ clean_df = <<>>
    /\ cleaning_report = <<>>
    /\ results = <<>>
    /\ exc = <<>>
    /\ files = EmptyDict
    /\ locals = EmptyDict
    /\ outbox = <<>>
    /\ log = <<>>

\* validate_env()
ValidateEnv ==
    /\ pc = "validate_env"
    /\ \E complete \in BOOLEAN :
           IF complete THEN pc' = "load" /\ exc' = exc
           ELSE Throw(Exception("PipelineError", "Missing environment variables"))
    /\ UNCHANGED <<df, args, clean_df, cleaning_report, results, files, locals, outbox, log>>

\* lines 220-225: load_csv for a path in .csv, load_excel otherwise
Load ==
    /\ pc = "load"
    /\ \E csv \in BOOLEAN, exists \in BOOLEAN, readable \in BOOLEAN,
          required_env \in RequiredEnv, file \in DataFiles :
         \E r \in {IF csv THEN load_csv(file, exists, readable, required_env)
                          ELSE load_excel(file, exists, readable)} :
           IF r.raised THEN Throw(r.exc) /\ df' = df
           ELSE df' = r.value /\ pc' = "handle_schema_drift" /\ exc' = exc
    /\ UNCHANGED <<args, clean_df, cleaning_report, results, files, locals, outbox, log>>

\* df = handle_schema_drift(df); a dict of sheets has no attribute columns
HandleSchemaDrift ==
    /\ pc = "handle_schema_drift"
    /\ IF ~IsDataFrame(df[1])
       THEN Throw(Exception("AttributeError", "'dict' object has no attribute 'columns'"))
            /\ UNCHANGED <<df, log>>
       ELSE /\ df' = <<handle_schema_drift(df[1])>>
            /\ log' = log \o
                  (IF MissingRequired(df[1]) # {}
                   THEN <<LogEntry("WARNING", "Adding missing required column",
                                   Sorted(MissingRequired(df[1])))>>
                   ELSE <<>>)
            /\ pc' = "clean"
            /\ exc' = exc
    /\ UNCHANGED <<args, clean_df, cleaning_report, results, files, locals, outbox>>

\* clean_df, cleaning_report = cleaner.clean_data(df)
Clean ==
    /\ pc = "clean"
    /\ \E r \in {clean_data(df[1], DefaultArgs.drop_duplicates, DefaultArgs.required_columns)} :
           IF r.raised
           THEN Throw(r.exc) /\ UNCHANGED <<clean_df, cleaning_report, log>>
           ELSE /\ clean_df' = <<r.value[1][1]>>
                /\ cleaning_report' = <<r.value[1][2]>>
                /\ log' = Append(log, LogEntry("INFO", "Cleaning report", ""))
                /\ pc' = "to_csv"
                /\ exc' = exc
    /\ df' = <<CallerTableAfter(df[1])>>
    /\ UNCHANGED <<args, results, files, locals, outbox>>

\* lines 232-237: the cleaned table is written under data/processed
SaveCleaned ==
    /\ pc = "to_csv"
    /\ \E writable \in BOOLEAN :
           IF writable
           THEN files' = Put(files, "processed", clean_df[1]) /\ pc' = "analyze" /\ exc' = exc
           ELSE Throw(Exception("OSError", "data/processed")) /\ files' = files
    /\ UNCHANGED <<df, args, clean_df, cleaning_report, results, locals, outbox, log>>

\* results = analyzer.analyze_data(clean_df); stats = results.get("statistics", {})
Analyze ==
    /\ pc = "analyze"
    /\ \E r \in {analyze_data(clean_df[1], <<>>)} :
           IF r.raised
           THEN Throw(r.exc) /\ UNCHANGED <<results, locals>>
           ELSE /\ results' = r.value
                /\ locals' = Put(locals, "stats",
                                 IF "statistics" \in DOMAIN r.value[1]
                                 THEN r.value[1]["statistics"] ELSE EmptyDict)
                /\ pc' = "write_excel"
                /\ exc' = exc
    /\ UNCHANGED <<df, args, clean_df, cleaning_report, files, outbox, log>>

\* lines 242-253: the report is written, then checked to exist with a
\* size above 0 (intact)
WriteExcel ==
    /\ pc = "write_excel"
    /\ \E fault \in WriterFaults, intact \in BOOLEAN :
         \E r \in {write_analysis_to_excel(results[1], clean_df, cleaning_report, fault)} :
           /\ cleaning_report' = r.cleaning_report
           /\ log' = log \o r.log
           /\ IF r.raised
              THEN /\ Throw(r.exc)
                   /\ files' = IF r.workbook # <<>> THEN Put(files, "report", r.workbook[1])
                               ELSE files
                   /\ locals' = locals
              ELSE IF ~intact
              THEN /\ Throw(Exception("ReportError", "Generated report is empty or missing"))
                   /\ files' = files
                   /\ locals' = Put(locals, "report_path", r.value[1].filepath)
              ELSE /\ files' = Put(files, "report", r.workbook[1])
                   /\ locals' = Put(locals, "report_path", r.value[1].filepath)
                   /\ pc' = "grade"
                   /\ exc' = exc
    /\ UNCHANGED <<df, args, clean_df, results, outbox>>

\* an enrichment that reads the statistics under keys the analyzer does not write
EnrichedFromOtherKeys(report, drop_rate, severity) ==
    SetDefault(SetDefault(
        ("CLIENT_NAME" :> "Customer")
        @@ ("EMAIL_FREQUENCY" :> "weekly")
        @@ ("ROWS_LOADED" :> Len(df[1].index))
        @@ ("ROWS_CLEANED" :> Len(clean_df[1].index))
        @@ ("PIPELINE_VERSION" :> PIPELINE_VERSION)
        @@ ("REPORT_PATH" :> locals["report_path"])
        @@ ("MEAN_VALUES" :> Get(locals["stats"], "average"))
        @@ ("MIN_VALUES" :> Get(locals["stats"], "minimum"))
        @@ ("MAX_VALUES" :> Get(locals["stats"], "maximum"))
        @@ ("DROP_RATE" :> FormatPercent(drop_rate))
        @@ ("SEVERITY" :> severity)
        @@ report,
        "missing_required_columns", <<>>), "extra_columns", <<>>)

\* lines 282-296: the keys that the pipeline adds to cleaning_report
Enriched(report, drop_rate, severity) ==
    SetDefault(SetDefault(
        ("CLIENT_NAME" :> "Customer")
        @@ ("EMAIL_FREQUENCY" :> "weekly")
        @@ ("ROWS_LOADED" :> Len(df[1].index))
        @@ ("ROWS_CLEANED" :> Len(clean_df[1].index))
        @@ ("PIPELINE_VERSION" :> PIPELINE_VERSION)
        @@ ("REPORT_PATH" :> locals["report_path"])
        @@ ("MEAN_VALUES" :> Get(locals["stats"], "mean"))
        @@ ("MIN_VALUES" :> Get(locals["stats"], "min"))
        @@ ("MAX_VALUES" :> Get(locals["stats"], "max"))
        @@ ("DROP_RATE" :> FormatPercent(drop_rate))
        @@ ("SEVERITY" :> severity)
        @@ report,
        "missing_required_columns", <<>>), "extra_columns", <<>>)

\* lines 255-296: grading, the threshold checks and the enrichment
Grade ==
    /\ pc = "grade"
    /\ IF cleaning_report[1]["original_rows"] = 0
       THEN Throw(Exception("ZeroDivisionError", "division by zero"))
            /\ UNCHANGED <<cleaning_report, locals, log>>
       ELSE \E drop_rate_threshold \in DropRateThresholds,
               invalid_emails_threshold \in InvalidEmailThresholds :
              \E drop_rate \in {DropRate(cleaning_report[1])} :
                /\ log' = log
                     \o (IF FloatLess(FloatQuotient(drop_rate_threshold[1], drop_rate_threshold[2]),
                                      drop_rate)
                         THEN <<LogEntry("WARNING", "Drop rate exceeded threshold",
                                         FormatPercent(drop_rate))>>
                         ELSE <<>>)
                     \o (IF cleaning_report[1]["invalid_emails_dropped"] > invalid_emails_threshold
                         THEN <<LogEntry("WARNING", "Invalid emails exceeded threshold",
                                         cleaning_report[1]["invalid_emails_dropped"])>>
                         ELSE <<>>)
                /\ cleaning_report' = <<Enriched(cleaning_report[1], drop_rate, Severity(drop_rate))>>
                /\ locals' = Put(Put(Put(Put(locals, "drop_rate", drop_rate),
                                          "severity", Severity(drop_rate)),
                                      "drop_rate_threshold",
                                      FloatQuotient(drop_rate_threshold[1], drop_rate_threshold[2])),
                                  "invalid_emails_threshold", invalid_emails_threshold)
                /\ pc' = "load_template"
                /\ exc' = exc
    /\ UNCHANGED <<df, args, clean_df, results, files, outbox>>

\* lines 302-307; severity.startswith("HIGH") holds for HIGH alone, and
\* severity.startswith("MEDIUM") for MEDIUM alone
Subject(severity) ==
    IF severity = HIGH THEN "[ACTION REQUIRED] Data Quality Alert: High Drop Rate"
    ELSE IF severity = MEDIUM THEN "[NOTICE] Data Quality Report: Moderate Issues"
    ELSE "Data Quality Report: Clean Run"

\* lines 299-307: the email body and subject
LoadTemplate ==
    /\ pc = "load_template"
    /\ \E found \in BOOLEAN :
         \E r \in {load_template(cleaning_report[1], found)} :
           IF r.raised THEN Throw(r.exc) /\ locals' = locals
           ELSE /\ locals' = Put(Put(locals, "email_body", r.value[1]),
                                 "subject", Subject(locals["severity"]))
                /\ pc' = "send"
                /\ exc' = exc
    /\ UNCHANGED <<df, args, clean_df, cleaning_report, results, files, outbox, log>>

\* lines 310-318: DRY_RUN skips the email
Send ==
    /\ pc = "send"
    /\ \E dry_run \in BOOLEAN :
           IF dry_run
           THEN /\ log' = Append(log, LogEntry("INFO", "Dry-run enabled", ""))
                /\ locals' = locals
                /\ pc' = "summary"
           ELSE /\ log' = log
                /\ locals' = Put(Put(Put(locals, "attachment_path", <<locals["report_path"]>>),
                                      "max_retries", max_retries),
                                  "attempt", 0)
                /\ pc' = "send_email"
    /\ UNCHANGED <<df, args, clean_df, cleaning_report, results, exc, files, outbox>>

\* what emailer.send_email raises, always as an EmailError: the SMTP
\* exchange failed, or SENDER_EMAIL is not set
EmailFailures == {"Email delivery failed", "Missing email configuration variables"}

\* the outcomes of one call of emailer.send_email(..., attachment_path=
\* attachment, attachment_required=True): "sent" or the EmailError raised
SendOutcomes(attachment) ==
    IF attachment = <<>> THEN {"Attachment required but not provided."}
    ELSE {"sent"} \cup EmailFailures

\* where a raise of send_with_backoff leaves the caller: a direct caller
\* receives the exception, run_pipeline_async catches the pipeline's errors
RaiseTarget(in_pipeline, type) ==
    IF ~in_pipeline THEN "raised"
    ELSE IF type \in CaughtErrors THEN "except" ELSE "uncaught"

\* one iteration of the loop of send_with_backoff, with the sleep that
\* follows a failed attempt, or its end when range(max_retries) is
\* exhausted; the parameters and the loop variable are in locals
SendWithBackoffStep(return_pc, in_pipeline) ==
    IF locals["attempt"] >= locals["max_retries"]
    THEN /\ pc' = return_pc
         /\ UNCHANGED <<exc, outbox, log, locals>>
    ELSE \E outcome \in SendOutcomes(locals["attachment_path"]) :
           IF outcome = "sent"
           THEN /\ outbox' = Append(outbox, [channel    |-> "email",
                                             recipient  |-> "RECIPIENT_EMAIL",
                                             subject    |-> locals["subject"],
                                             body       |-> locals["email_body"],
                                             attachment |-> locals["attachment_path"]])
                /\ log' = Append(log, LogEntry("INFO", "Email sent successfully",
                                               locals["attempt"] + 1))
                /\ locals' = locals
                /\ pc' = return_pc
                /\ exc' = exc
           ELSE IF locals["attempt"] = locals["max_retries"] - 1
           THEN /\ exc' = Exception("EmailError", outcome)
                /\ pc' = RaiseTarget(in_pipeline, "EmailError")
                /\ UNCHANGED <<outbox, log, locals>>
           ELSE IF locals["attempt"] + 1 > Len(delays)
           \* delays[attempt] raises IndexError inside the except clause
           THEN /\ exc' = Exception("IndexError", "list index out of range")
                /\ pc' = RaiseTarget(in_pipeline, "IndexError")
                /\ UNCHANGED <<outbox, log, locals>>
           ELSE /\ log' = Append(log, LogEntry("WARNING", "Email failed",
                                               [attempt |-> locals["attempt"] + 1,
                                                error   |-> outcome,
                                                wait    |-> delays[locals["attempt"] + 1]]))
                /\ locals' = Put(locals, "attempt", locals["attempt"] + 1)
                /\ UNCHANGED <<pc, exc, outbox>>

\* send_with_backoff as run_pipeline_async calls it
SendEmail ==
    /\ pc = "send_email"
    /\ SendWithBackoffStep("summary", TRUE)
    /\ UNCHANGED <<df, args, clean_df, cleaning_report, results, files>>

\* lines 320-339: the summary that run_pipeline_async returns
Summarize ==
    /\ pc = "summary"
    /\ locals' = Put(locals, "summary",
                     [report_path  |-> locals["report_path"],
                      rows_loaded  |-> Len(df[1].index),
                      rows_cleaned |-> Len(clean_df[1].index),
                      drop_rate    |-> FormatPercent(locals["drop_rate"]),
                      severity     |-> locals["severity"]])
    /\ log' = Append(log, LogEntry("INFO", "Pipeline completed successfully", ""))
    /\ pc' = "done"
    /\ UNCHANGED <<df, args, clean_df, cleaning_report, results, exc, files, outbox>>

\* the outcomes of the webhook: ALERT_WEBHOOK_URL unset, the post answered
\* with a status below 400, answered with a status of 400 or more, or
\* failed in aiohttp
WebhookOutcomes == {"unset", "ok", "http_error", "client_error"}

\* lines 349-350 and alert_failure up to its webhook branch
HandleFailure ==
    /\ pc = "except"
    /\ \E webhook \in WebhookOutcomes :
           CASE webhook = "unset" ->
                  /\ log' = Append(log, LogEntry("ERROR", "Pipeline failed", exc[1].kind))
                  /\ pc' = "alert_email"
                  /\ UNCHANGED <<outbox, exc>>
             [] webhook = "ok" ->
                  /\ outbox' = Append(outbox, [channel |-> "webhook", text |-> exc[1].kind])
                  /\ log' = log \o <<LogEntry("ERROR", "Pipeline failed", exc[1].kind),
                                     LogEntry("INFO", "Failure alert sent via webhook", "")>>
                  /\ pc' = "exit"
                  /\ exc' = exc
             [] webhook = "http_error" ->
                  /\ log' = log \o <<LogEntry("ERROR", "Pipeline failed", exc[1].kind),
                                     LogEntry("ERROR", "Webhook alert failed", "")>>
                  /\ pc' = "alert_email"
                  /\ UNCHANGED <<outbox, exc>>
             [] OTHER ->
                  /\ log' = Append(log, LogEntry("ERROR", "Pipeline failed", exc[1].kind))
                  /\ exc' = Exception("ClientError", "webhook")
                  /\ pc' = "uncaught"
                  /\ outbox' = outbox
    /\ UNCHANGED <<df, args, clean_df, cleaning_report, results, files, locals>>

\* alert_failure, lines 165-174: the alert email
AlertEmail ==
    /\ pc = "alert_email"
    /\ \E delivered \in BOOLEAN :
           IF delivered
           THEN /\ outbox' = Append(outbox, [channel   |-> "email",
                                             recipient |-> "ALERT_EMAIL",
                                             subject   |-> "Pipeline Failure Alert",
                                             body      |-> exc[1].kind,
                                             attachment |-> <<>>])
                /\ log' = Append(log, LogEntry("INFO", "Failure alert sent via email", ""))
           ELSE /\ outbox' = outbox
                /\ log' = Append(log, LogEntry("ERROR", "Failed to send alert email", ""))
    /\ pc' = "exit"
    /\ UNCHANGED <<df, args, clean_df, cleaning_report, results, exc, files, locals>>

\* sys.exit(1)
Exit ==
    /\ pc = "exit"
    /\ pc' = "exited"
    /\ UNCHANGED <<df, args, clean_df, cleaning_report, results, exc, files, locals, outbox, log>>

Next ==
    \/ ValidateEnv
    \/ Load
    \/ HandleSchemaDrift
    \/ Clean
    \/ SaveCleaned
    \/ Analyze
    \/ WriteExcel
    \/ Grade
    \/ LoadTemplate
    \/ Send
    \/ SendEmail
    \/ Summarize
    \/ HandleFailure
    \/ AlertEmail
    \/ Exit

Spec == Init /\ [][Next]_vars

(***************************************************************************)
(* A direct call  send_with_backoff(recipient=..., subject=..., body=...,  *)
(* attachment_path=..., max_retries=...).                                  *)
(***************************************************************************)
InitBackoff ==
    /\ pc = "send_with_backoff"
    /\ \E retries \in 0..MaxRetriesArg, severity \in {LOW, MEDIUM, HIGH},
          attachment \in {<<>>, <<ReportPath>>} :
          locals = [max_retries     |-> retries,
                    attempt         |-> 0,
                    subject         |-> Subject(severity),
                    email_body      |-> EmptyDict,
                    attachment_path |-> attachment]
    /\ df = <<>>
    /\ args = DefaultArgs
    /\ clean_df = <<>>
    /\ cleaning_report = <<>>
    /\ results = <<>>
    /\ exc = <<>>
    /\ files = EmptyDict
    /\ outbox = <<>>
    /\ log = <<>>

CallSendWithBackoff ==
    /\ pc = "send_with_backoff"
    /\ SendWithBackoffStep("returned", FALSE)
    /\ UNCHANGED <<df, args, clean_df, cleaning_report, results, files>>

NextBackoff == CallSendWithBackoff

SpecBackoff == InitBackoff /\ [][NextBackoff]_vars

(***************************************************************************)
(* Properties of clean_data, stated on the caller's table df[1] and on     *)
(* what the caller holds after the call.                                   *)
(***************************************************************************)
InputColumns == NormalizeColumns(df[1].columns)

InputRows == DOMAIN df[1].data

HasRequiredColumns == Range(REQUIRED_COLUMNS) \subseteq Range(InputColumns)

\* the raw value of row i in the column that is named c after normalization,
\* cols being the normalized column names
RawCell(cols, i, c) == df[1].data[i][IndexIn(c, cols)]

EmailFails(cols, i) == ~Apply(validate_email_table, validate_email, RawCell(cols, i, col_email))

PhoneFails(cols, i) == ~Apply(validate_phone_table, validate_phone, RawCell(cols, i, col_phone))

SalaryFails(cols, i) == Apply(clean_numeric_table, clean_numeric, RawCell(cols, i, col_salary)) = NoFloat

DateFails(cols, i) == Apply(clean_date_table, clean_date, RawCell(cols, i, col_date_joined)) = NaT

\* the rows with at least one failing validated field
FailingRows ==
    UNION {{i \in InputRows : \/ EmailFails(cols, i) \/ PhoneFails(cols, i)
                              \/ SalaryFails(cols, i) \/ DateFails(cols, i)} :
           cols \in {InputColumns}}

\* row i equals, cell by cell on the raw values, a row before it
DuplicateOfEarlier(i) == \E j \in 1..(i - 1) : df[1].data[j] = df[1].data[i]

\* row i (by its label) is a row of the cleaned table
Retained(i) == df[1].index[i] \in Range(clean_df[1].index)

\* the rows left once duplicates are removed, when they are removed at all
AfterDuplicateRemoval ==
    {i \in InputRows : args.drop_duplicates => ~DuplicateOfEarlier(i)}

RowsMarkedInvalid == AfterDuplicateRemoval \cap FailingRows

CleanedNonEmptyInput == pc = "returned" /\ ~Empty(df[1]) /\ HasRequiredColumns

\* C1 as stated: a row is retained iff none of its four validated fields
\* fails and it is not an exact duplicate (on raw values) of an earlier row.
C1_RetainedIffValidAndNotDuplicate ==
    CleanedNonEmptyInput =>
        \A failing \in {FailingRows} : \A i \in InputRows :
            Retained(i) <=> (i \notin failing /\ ~DuplicateOfEarlier(i))

\* C1 amended: with drop_duplicates true (the default) a row is retained iff
\* none of its four validated fields fails and it is not an exact duplicate,
\* on the raw values, of an earlier row; with drop_duplicates false it is
\* retained iff none of its four validated fields fails.
C1_RetainedIffValidAndNotDroppedAsDuplicate ==
    CleanedNonEmptyInput =>
        \A failing \in {FailingRows} : \A i \in InputRows :
            Retained(i) <=> /\ i \notin failing
                            /\ args.drop_duplicates => ~DuplicateOfEarlier(i)

\* a valid row is dropped only because it repeats the retained row before it
C1_Witness ==
    /\ CleanedNonEmptyInput
    /\ args.drop_duplicates
    /\ \E i, j \in InputRows :
          /\ i < j
          /\ df[1].data[i] = df[1].data[j]
          /\ j \notin FailingRows
          /\ Retained(i)
          /\ ~Retained(j)

\* C2: every returned report has
\* final_rows = original_rows - duplicates_dropped - rows_marked_invalid,
\* rows_marked_invalid counting the rows left after duplicate removal with at
\* least one failing field; final_rows is the length of the cleaned table.
C2_FinalRowsBalance ==
    pc = "returned" =>
        \A report \in {cleaning_report[1]} :
            /\ report.final_rows = Len(clean_df[1].index)
            /\ report.final_rows =
                  report.original_rows - report.duplicates_dropped
                  - (IF Empty(df[1]) THEN 0 ELSE Cardinality(RowsMarkedInvalid))

C2_Witness ==
    /\ CleanedNonEmptyInput
    /\ cleaning_report[1].duplicates_dropped > 0
    /\ RowsMarkedInvalid # {}
    /\ cleaning_report[1].final_rows < cleaning_report[1].original_rows

\* C3: each per-field counter is the number of rows (left after duplicate
\* removal) whose own field fails, whatever the other three fields do, and a
\* row failing several validators leaves the table once.
C3_CountersIndependent ==
    (pc = "returned" /\ ~Empty(df[1])) =>
        \A report \in {cleaning_report[1]} : \A rows \in {AfterDuplicateRemoval} :
        \A cols \in {InputColumns} : \A marked \in {RowsMarkedInvalid} :
            /\ report.invalid_emails_dropped = Cardinality({i \in rows : EmailFails(cols, i)})
            /\ report.invalid_phones_dropped = Cardinality({i \in rows : PhoneFails(cols, i)})
            /\ report.invalid_numbers_dropped = Cardinality({i \in rows : SalaryFails(cols, i)})
            /\ report.invalid_dates_dropped = Cardinality({i \in rows : DateFails(cols, i)})
            /\ Cardinality(rows) - report.final_rows = Cardinality(marked)
            /\ \A i \in marked : ~Retained(i)

\* a row fails two validators and the counters sum to more than the rows removed
C3_Witness ==
    /\ pc = "returned" /\ ~Empty(df[1])
    /\ \E cols \in {InputColumns} : \E i \in AfterDuplicateRemoval :
          EmailFails(cols, i) /\ PhoneFails(cols, i)
    /\ \E report \in {cleaning_report[1]} :
          report.invalid_emails_dropped + report.invalid_phones_dropped
          + report.invalid_numbers_dropped + report.invalid_dates_dropped
          > Cardinality(RowsMarkedInvalid)

RequiredOfCall ==
    IF args.required_columns # <<>> THEN args.required_columns ELSE REQUIRED_COLUMNS

MissingOfCall == Range(RequiredOfCall) \ Range(InputColumns)

\* C6: with a required column absent from a non-empty table, clean_data
\* signals a CleaningError and the caller can read the sorted missing names
\* in the cleaning report's missing_required_columns.
C6_MissingColumnsInReport ==
    (pc \in {"returned", "raised"} /\ ~Empty(df[1]) /\ MissingOfCall # {}) =>
        /\ pc = "raised"
        /\ exc[1].type = "CleaningError"
        /\ clean_df = <<>>
        /\ cleaning_report # <<>>
        /\ cleaning_report[1].missing_required_columns = Sorted(MissingOfCall)

(***************************************************************************)
(* Properties of grading and of the report writer.                         *)
(***************************************************************************)
\* the tier of the drop rate 1 - final/original in exact arithmetic:
\* below 1/10, from 1/10 to 3/10, above 3/10
ExactTier(original, final) ==
    IF 10 * (original - final) < original THEN LOW
    ELSE IF 10 * (original - final) <= 3 * original THEN MEDIUM
    ELSE HIGH

Graded == "severity" \in DOMAIN locals

SummarySheet == files["report"].sheets["Pipeline Summary"]

\* C4: a report with original_rows > 0 is graded LOW iff its drop rate
\* d = 1 - final_rows/original_rows is below 0.10, MEDIUM iff
\* 0.10 <= d <= 0.30 and HIGH iff d > 0.30 (10 original and 9 final rows
\* grade MEDIUM), and the fallback grading of the report writer gives the
\* tier that the pipeline gives.
C4_SeverityTiers ==
    Graded =>
        /\ locals["severity"] =
               ExactTier(cleaning_report[1]["original_rows"], cleaning_report[1]["final_rows"])
        /\ SummarySheet["Severity"] = <<locals["severity"]>>

\* C5: grading a cleaning report with original_rows = 0 gives drop rate 0
\* and a severity, and no ZeroDivisionError is raised where the drop rate is
\* computed.
C5_ZeroRowsGraded ==
    (pc = "returned" /\ cleaning_report[1]["original_rows"] = 0) =>
        /\ Get(cleaning_report[1], "DROP_RATE") = <<<<"0",".","0","0","%">>>>
        /\ "SEVERITY" \in DOMAIN cleaning_report[1]
        /\ \A i \in DOMAIN log : log[i].event # "Failed to compute drop rate/severity"

(***************************************************************************)
(* Properties of the pipeline.                                             *)
(***************************************************************************)
Logged(event) == \E i \in DOMAIN log : log[i].event = event

\* the table that the loader returned lacked a required column
LoadedWithoutRequiredColumn == Logged("Adding missing required column")

\* clean_data has been called for the run's table and has returned
CleaningDone == cleaning_report # <<>>

Finished == pc \in {"done", "exited", "uncaught"}

\* the run failed: it left run_pipeline_async by sys.exit(1) or by an exception
Failed == pc \in {"exited", "uncaught"}

\* alert_failure has been called
AlertTriggered == Logged("Pipeline failed")

AlertDelivered ==
    \E i \in DOMAIN outbox :
        outbox[i].channel = "webhook" \/ outbox[i].recipient = "ALERT_EMAIL"

\* the exceptions whose cause is outside the run's data: the file system,
\* the template, the SMTP server, the webhook
ExternalFaults ==
    {"Excel writing failed", "Generated report is empty or missing", "data/processed",
     "Email template not found", "Email delivery failed",
     "Missing email configuration variables", "webhook"}

\* C7: a run whose loaded table lacks a required column halts before the
\* cleaning stage processes any row.
C7_MissingColumnHaltsBeforeCleaning ==
    (LoadedWithoutRequiredColumn /\ Len(df[1].index) > 0) => ~CleaningDone

\* C8: a run in which cleaning succeeds on a table with original_rows > 0 is
\* no hard failure whatever its drop rate, up to 1: unless something outside
\* the data fails, it ends with a report that carries a severity, without a
\* failure alert and without an error exit.
C8_DegradedRunIsNoHardFailure ==
    ( /\ Finished
      /\ CleaningDone
      /\ cleaning_report[1]["original_rows"] > 0
      /\ (exc # <<>> => exc[1].kind \notin ExternalFaults) )
    =>  /\ pc = "done"
        /\ "report" \in DOMAIN files
        /\ SummarySheet["Severity"] # <<>>
        /\ ~AlertTriggered
        /\ ~AlertDelivered

\* C9: every failed run, whichever stage fails, has produced no report and
\* has triggered the failure alert.
C9_FailedRunHasNoReportAndAlerts ==
    Failed => ("report" \notin DOMAIN files /\ AlertTriggered)

\* C10: when the report writer has rendered the Pipeline Summary from the
\* cleaning report, the summary carries the grader's enrichment: rows
\* loaded, rows cleaned, drop rate, severity and pipeline version.
C10_SummaryCarriesEnrichment ==
    ("report" \in DOMAIN files /\ exc = <<>>) =>
        /\ SummarySheet["Rows Loaded"] # <<>>
        /\ SummarySheet["Rows Cleaned"] # <<>>
        /\ SummarySheet["Drop Rate"] # <<>>
        /\ SummarySheet["Severity"] # <<>>
        /\ SummarySheet["Pipeline Version"] # <<>>

\* drop_rate > drop_rate_threshold, on the values the run computed
DropRateExceeded == FloatLess(locals["drop_rate_threshold"], locals["drop_rate"])

\* invalid_emails_dropped > invalid_emails_threshold
InvalidEmailsExceeded ==
    cleaning_report[1]["invalid_emails_dropped"] > locals["invalid_emails_threshold"]

\* C11: once the run is graded, the enriched report carries two breach
\* flags, DROP_RATE_ALERT set iff the drop rate is above the drop-rate
\* threshold and INVALID_EMAILS_ALERT set iff invalid_emails_dropped is above
\* the invalid-email threshold, each depending on its own metric only, for
\* the report writer to highlight.
C11_BreachFlagsInReport ==
    Graded =>
        /\ "DROP_RATE_ALERT" \in DOMAIN cleaning_report[1]
        /\ "INVALID_EMAILS_ALERT" \in DOMAIN cleaning_report[1]
        /\ (cleaning_report[1]["DROP_RATE_ALERT"] = "EXCEEDED") <=> DropRateExceeded
        /\ (cleaning_report[1]["INVALID_EMAILS_ALERT"] = "EXCEEDED") <=> InvalidEmailsExceeded

\* the enriched report is about to be, or has been, handed to load_template
HandedToTemplate == pc = "load_template" \/ "email_body" \in DOMAIN locals

\* the placeholders that the grader and the analyzer define
GraderPlaceholders ==
    {"CLIENT_NAME", "EMAIL_FREQUENCY", "ROWS_LOADED", "ROWS_CLEANED",
     "MEAN_VALUES", "MIN_VALUES", "MAX_VALUES", "DROP_RATE", "SEVERITY"}

\* the placeholders whose value comes from a dict.get, which may give None
OptionalPlaceholders == {"MEAN_VALUES", "MIN_VALUES", "MAX_VALUES"}

\* C12: whenever the enriched cleaning report is handed to load_template,
\* each of the placeholders client name, frequency, rows loaded, rows
\* cleaned, mean/min/max values, drop rate and severity is a key of the
\* report and its value is not None.
C12_PlaceholdersPopulated ==
    HandedToTemplate =>
        /\ GraderPlaceholders \subseteq DOMAIN cleaning_report[1]
        /\ \A k \in OptionalPlaceholders : cleaning_report[1][k] # <<>>

\* a report has been rendered for a run that dropped rows, with the
\* statistics of the numeric columns in it
C12_Witness ==
    /\ "email_body" \in DOMAIN locals
    /\ cleaning_report[1]["ROWS_CLEANED"] < cleaning_report[1]["ROWS_LOADED"]
    /\ \A k \in OptionalPlaceholders :
          locals["email_body"][k] = <<cleaning_report[1][k]>> /\ cleaning_report[1][k] # <<>>
    /\ col_salary \in DOMAIN cleaning_report[1]["MEAN_VALUES"][1]

(***************************************************************************)
(* Further properties of clean_data.                                       *)
(***************************************************************************)
\* the step in which the call of clean_data returns or raises
CleanDataCall == pc = "clean_data" /\ pc' # "clean_data"

\* C13: a call of clean_data, whether it returns or raises and whether the
\* table is empty or not, leaves the caller's table with the column names,
\* rows and values it had, and the cleaned table it returns is a new object,
\* not the caller's table.
C13_InputUntouchedAndCopyReturned ==
    [][CleanDataCall =>
          /\ df' = df
          /\ pc' = "returned" => clean_df'[1].obj # df[1].obj]_vars

CountersOf(report) ==
    <<report.original_rows, report.final_rows, report.duplicates_dropped,
      report.invalid_emails_dropped, report.invalid_phones_dropped,
      report.invalid_numbers_dropped, report.invalid_dates_dropped>>

ValidatorCallsOfCall == ValidatorCalls(df[1], args.drop_duplicates, args.required_columns)

\* C14: clean_data on a table without rows, whatever its columns, raises
\* nothing and returns a report whose original_rows, final_rows,
\* duplicates_dropped and four invalid counters are 0 and whose
\* missing_required_columns and extra_columns are empty, without calling a
\* validator.
C14_EmptyTableShortCircuits ==
    (pc \in {"returned", "raised"} /\ Len(df[1].index) = 0) =>
        /\ pc = "returned"
        /\ exc = <<>>
        /\ CountersOf(cleaning_report[1]) = <<0, 0, 0, 0, 0, 0, 0>>
        /\ cleaning_report[1].missing_required_columns = <<>>
        /\ cleaning_report[1].extra_columns = <<>>
        /\ ValidatorCallsOfCall = 0

\* an empty table that lacks a required column has been cleaned
C14_Witness ==
    /\ pc = "returned"
    /\ Len(df[1].index) = 0
    /\ MissingOfCall # {}
    /\ CountersOf(cleaning_report[1]) = <<0, 0, 0, 0, 0, 0, 0>>

(***************************************************************************)
(* Properties of analyze_data, stated on the caller's table clean_df[1]    *)
(* and allowlist args.numeric_columns.                                     *)
(***************************************************************************)
AnalysedTable == clean_df[1]

AllowlistOfCall == args.numeric_columns

\* the names of the allowlist that are no column of the table
MissingFromTable == Range(AllowlistOfCall) \ Range(AnalysedTable.columns)

AnalyzeDataCalled == pc \in {"returned", "raised"}

\* C15: analyze_data with an allowlist, on a non-empty table that lacks a
\* listed column, returns no result and signals an AnalysisError whose
\* message names the missing columns.
C15_MissingAllowlistColumnsNamed ==
    (AnalyzeDataCalled /\ ~Empty(AnalysedTable) /\ MissingFromTable # {}) =>
        /\ pc = "raised"
        /\ results = <<>>
        /\ exc[1].type = "AnalysisError"
        /\ Range(exc[1].detail) = MissingFromTable

\* the numeric columns that analyze_data considers: those of the allowlist
\* when there is one, those of the table otherwise
NumericCount ==
    Cardinality((IF AllowlistOfCall # <<>> THEN Range(AllowlistOfCall)
                 ELSE Range(AnalysedTable.columns)) \cap AnalysedTable.numeric)

AnalysedNonEmpty == pc = "returned" /\ ~Empty(AnalysedTable)

\* C16: for a non-empty table with n numeric columns, the result has a
\* correlation entry iff 2 <= n <= 10 and statistics, with mean, min, max
\* and sum, iff n >= 1; for n = 0, n = 1 and n > 10 no error is raised.
C16_CorrelationIffTwoToTen ==
    /\ (AnalyzeDataCalled /\ ~Empty(AnalysedTable) /\ MissingFromTable = {}) => pc = "returned"
    /\ AnalysedNonEmpty =>
          /\ "correlation" \in DOMAIN results[1] <=> (2 <= NumericCount /\ NumericCount <= 10)
          /\ "statistics" \in DOMAIN results[1] <=> NumericCount >= 1
          /\ "statistics" \in DOMAIN results[1] =>
                DOMAIN results[1]["statistics"] = {"mean", "min", "max", "sum"}

\* a table of more than ten numeric columns has been analysed: statistics
\* without correlation
C16_Witness ==
    /\ AnalysedNonEmpty
    /\ NumericCount > 10
    /\ "statistics" \in DOMAIN results[1]
    /\ "correlation" \notin DOMAIN results[1]

\* the cell is null: NaN in a numeric column, None elsewhere
IsNull(cell) == cell = NaN \/ cell = None

\* the number of null cells of the table's column at position k
NullsAt(k) ==
    Cardinality({i \in DOMAIN AnalysedTable.data : IsNull(AnalysedTable.data[i][k])})

\* C17: meta.missing_values of every result has exactly the columns with a
\* null count above zero as its keys, each with that count as its value.
C17_MissingValuesSparse ==
    AnalysedNonEmpty =>
        \A missing \in {results[1]["meta"].missing_values} :
            /\ \A k \in DOMAIN AnalysedTable.columns :
                  IF NullsAt(k) > 0
                  THEN /\ AnalysedTable.columns[k] \in DOMAIN missing
                       /\ missing[AnalysedTable.columns[k]] = NullsAt(k)
                  ELSE AnalysedTable.columns[k] \notin DOMAIN missing
            /\ DOMAIN missing \subseteq Range(AnalysedTable.columns)

\* a result lists one column with two nulls and leaves out a column without
C17_Witness ==
    /\ AnalysedNonEmpty
    /\ \E k, m \in DOMAIN AnalysedTable.columns :
          /\ NullsAt(k) = 2
          /\ NullsAt(m) = 0
          /\ results[1]["meta"].missing_values[AnalysedTable.columns[k]] = 2
          /\ AnalysedTable.columns[m] \notin DOMAIN results[1]["meta"].missing_values

(***************************************************************************)
(* Properties of the field validators, stated on the input args.value.     *)
(***************************************************************************)
\* the number of digits of the input
DigitCount == Len(Filter(args.value, DigitChars))

\* C18: the phone validator accepts a str iff the number of its digits,
\* which are what is left beside one leading '+' once the other characters
\* are stripped, is from 7 to 15, so that 7 to 15 digits with a '+' in
\* another place than the first, or with several '+', are accepted; it
\* rejects a value that is no str; and validate_phone(p) holds iff
\* normalize_phone(p) is not None.
C18_PhoneAcceptedByDigitCount ==
    pc = "returned" =>
        /\ locals.valid <=> (IsStr(args.value) /\ 7 <= DigitCount /\ DigitCount <= 15)
        /\ locals.valid <=> locals.normalized # None

\* C19: an email that validate_email accepts is normalized by fix_email to
\* a value that validate_email accepts and that fix_email returns as it is;
\* an email that validate_email rejects is turned into None by fix_email.
C19_FixEmailIdempotentOnValid ==
    pc = "returned" =>
        IF locals.valid
        THEN /\ locals.fixed # None
             /\ locals.revalid
             /\ locals.refixed = locals.fixed
        ELSE locals.fixed = None

\* an accepted email that normalization changes: trimmed and lowercased
C19_Witness ==
    /\ pc = "returned"
    /\ locals.valid
    /\ locals.fixed # args.value
    /\ Len(locals.fixed) < Len(args.value)
    /\ \E i \in DOMAIN args.value : args.value[i] \in UpperChars
    /\ locals.refixed = locals.fixed

(***************************************************************************)
(* Properties of email delivery.                                           *)
(***************************************************************************)
\* the places of a run in the order of the code, then those of a failed
\* run, then those of a direct call of send_with_backoff
StageOrder ==
    <<"validate_env", "load", "handle_schema_drift", "clean", "to_csv", "analyze",
      "write_excel", "grade", "load_template", "send", "send_email", "summary", "done",
      "except", "alert_email", "exit", "exited", "uncaught",
      "send_with_backoff", "returned", "raised">>

StageRank(stage) == IndexIn(stage, StageOrder)

InBackoff == pc \in {"send_email", "send_with_backoff"}

\* the report emails delivered
ReportEmails ==
    {i \in DOMAIN outbox : outbox[i].channel = "email" /\ outbox[i].recipient = "RECIPIENT_EMAIL"}

\* the waits of the failed attempts logged so far, oldest first
LoggedWaits ==
    LET failed == {i \in DOMAIN log : log[i].event = "Email failed"}
    IN  Pick([i \in DOMAIN log |-> IF i \in failed THEN log[i].detail.wait ELSE 0], failed)

\* a step of send_with_backoff with max_retries >= 1, which is one call of
\* emailer.send_email: the call is the (attempt + 1)-th of at most
\* max_retries; when it succeeds the email is delivered and the function
\* returns; when it fails and is not the last, the function waits the next
\* of the delays 1, 5, 10 and stays for another call; when the last fails,
\* its EmailError leaves the function
BackoffStep ==
    (InBackoff /\ locals["max_retries"] >= 1) =>
        /\ locals["attempt"] + 1 <= locals["max_retries"]
        /\ pc' \in {"summary", "returned"} =>
              /\ Cardinality(ReportEmails') = Cardinality(ReportEmails) + 1
              /\ locals'["attempt"] = locals["attempt"]
        /\ pc' = pc =>
              /\ locals["attempt"] + 1 < locals["max_retries"]
              /\ locals'["attempt"] = locals["attempt"] + 1
              /\ LoggedWaits' = Append(LoggedWaits, <<1, 5, 10>>[locals["attempt"] + 1])
              /\ outbox' = outbox
        /\ pc' \notin {"summary", "returned", pc} =>
              /\ locals["attempt"] + 1 = locals["max_retries"]
              /\ exc'[1].type = "EmailError"
              /\ outbox' = outbox

\* a step moves the run to a later place, or is a retry of the email
OnlyEmailRepeats ==
    /\ pc' # pc => StageRank(pc') > StageRank(pc)
    /\ pc' = pc => InBackoff
    /\ ~InBackoff => ReportEmails' = ReportEmails

\* C20: send_with_backoff calls emailer.send_email at most max_retries
\* (default 3) times, one after the other: it returns at the first success,
\* waits the next of the delays 1, 5, 10 after a failed call that is not the
\* last, and lets the last EmailError out when all max_retries calls fail;
\* no other stage of a run (loading, cleaning, analysis, report writing) is
\* executed twice.
C20_BackoffBoundedAndOnlyEmailRetried ==
    [][BackoffStep /\ OnlyEmailRepeats]_vars

(***************************************************************************)
(* Properties of alert_failure.                                            *)
(***************************************************************************)
\* the failure alerts delivered by the webhook and by email
WebhookAlerts == {i \in DOMAIN outbox : outbox[i].channel = "webhook"}

EmailAlerts ==
    {i \in DOMAIN outbox : outbox[i].channel = "email" /\ outbox[i].recipient = "ALERT_EMAIL"}

\* the calls of emailer.send_email made by alert_failure, each of which
\* logs its success or its EmailError
AlertEmailAttempts ==
    {i \in DOMAIN log :
        log[i].event \in {"Failure alert sent via email", "Failed to send alert email"}}

\* alert_failure has returned
AlertFailureReturned == pc \in {"exit", "exited"}

\* the alert goes over one channel at most, the webhook first: after a
\* successful post no alert email is attempted; when ALERT_WEBHOOK_URL is
\* unset or the post failed with a PipelineError exactly one alert email
\* has been attempted when alert_failure returns, and its EmailError is
\* logged without leaving alert_failure
OneChannelInOrder ==
    /\ Cardinality(WebhookAlerts) + Cardinality(EmailAlerts) <= 1
    /\ WebhookAlerts # {} => AlertEmailAttempts = {}
    /\ (AlertFailureReturned /\ WebhookAlerts = {}) => Cardinality(AlertEmailAttempts) = 1
    /\ Cardinality(AlertEmailAttempts) <= 1
    /\ Logged("Failed to send alert email") => (AlertFailureReturned /\ EmailAlerts = {})

\* once alert_failure has been called the run goes on to sys.exit(1): no
\* exception leaves alert_failure
AlertedRunExits == AlertTriggered => pc \in {"alert_email", "exit", "exited"}

\* C21: alert_failure delivers the failure alert over at most one channel,
\* the webhook first: a successful webhook post means no alert email; an
\* unset webhook or a post that fails with a PipelineError means exactly one
\* attempted alert email, whose EmailError is logged and swallowed; so
\* alert_failure raises nothing and the failed run always goes on to exit
\* with status 1.
C21_AlertOverOneChannelThenExit == OneChannelInOrder /\ AlertedRunExits

=============================================================================
